---- MODULE Spec2Model ----
(***************************************************************************)
(* Claim lifecycle service of the Multi-User Claim Management System.      *)
(*                                                                         *)
(* The model follows backend/src/services/claimService.ts (ClaimService),  *)
(* the Claim / AdminSettings / Post mongoose schemas and the post and      *)
(* admin-settings controllers.  Every service call is executed by a worker *)
(* of Procs and is split at its `await` points: one action per database    *)
(* round trip, so that concurrent requests interleave exactly where the    *)
(* event loop of the server lets them interleave.                          *)
(*                                                                         *)
(* Money is counted in hundredths of the currency unit (the precision that *)
(* calculateEarnings rounds to); the unrounded total is computed in IEEE   *)
(* 754 double precision, as JavaScript computes it.  Deduction reasons are *)
(* opaque tokens that stand for strings within the 500 character limit of  *)
(* the schema.                                                             *)
(***************************************************************************)
EXTENDS Integers, Sequences, FiniteSets, TLC

(* ----------------------------- bounds --------------------------------- *)
MaxClaims == 2      \* claims ever created
MaxHistory == 4     \* a lifecycle call is only issued on a history shorter than this
MaxCount == 1       \* upper limit of a post's like / view counter
MaxAmount == 3      \* largest deduction amount a reviewer tries
MaxSettings == 2    \* AdminSettings records ever inserted

(* ----------------------------- domains -------------------------------- *)
NULL == "null"
Users == {"u1", "u2"}
Claimants == {"u1"}
Reviewers == {"acc"}
Admins == {"adm"}
PostOwner == [p1 |-> "u1", p2 |-> "u2"]
PostIds == DOMAIN PostOwner
GhostPost == "px"
EngagedPosts == {"p1"}
Reasons == {"r1"}
Procs == {"q1", "q2"}
RatePairs == {<<0, 0>>, <<2, 50>>}
Amounts == (-1)..MaxAmount
ClaimIds == {1}

Statuses ==
  {"pending", "deducted", "user_accepted", "user_rejected",
   "account_approved", "admin_approved", "settled"}

validActions ==
  {"submitted", "deduction_applied", "user_accepted", "user_rejected",
   "account_approved", "admin_approved", "settled"}

ioInstance == TRUE

VARIABLES posts, settings, claims, proc, last, now

vars == <<posts, settings, claims, proc, last, now>>

(* ----------------------------- helpers -------------------------------- *)
Range(s) == {s[i] : i \in DOMAIN s}

\* the postIds a claimant submits: none, one, the same twice, two different
PostIdSeqs ==
  {<<>>, <<"p1">>, <<"p2">>, <<GhostPost>>, <<"p1", "p1">>, <<"p1", GhostPost>>,
   <<"p1", "p2">>}

Idle == [op |-> "none", pc |-> "idle"]

NoClaim ==
  [userId |-> NULL, postIds |-> <<>>, calculatedEarnings |-> 0,
   status |-> "none", lockedBy |-> NULL, lockTimestamp |-> -1,
   deductionAmount |-> 0, deductionReason |-> NULL, reviewedBy |-> NULL,
   finalApprovedBy |-> NULL, history |-> <<>>, createdBy |-> NULL,
   updatedBy |-> NULL, isActive |-> TRUE]

Args(userId, claimId, postIds, amount, reason, accepted) ==
  [userId |-> userId, claimId |-> claimId, postIds |-> postIds,
   amount |-> amount, reason |-> reason, accepted |-> accepted]

NoArgs == Args(NULL, 0, <<>>, 0, NULL, FALSE)

\* what the caller of the last finished service call got back, and what the
\* call published on the notification channel
Outcome(op, a, result, events, detail) ==
  [op |-> op, a |-> a, result |-> result, events |-> events, detail |-> detail]

Event(name, to, status) == [event |-> name, to |-> to, status |-> status]

InFlight(op) == Cardinality({q \in Procs : proc[q].op = op})

(* ------------------------- Post aggregate ----------------------------- *)
\* a Post document as the claim service reads it (likeCount and viewCount
\* default to 0); posts are never removed and userId is never reassigned
NewPost(userId) ==
  [userId |-> userId, likeCount |-> 0, viewCount |-> 0]

incrementViews(id) ==
  /\ id \in DOMAIN posts
  /\ posts[id].viewCount < MaxCount
  /\ posts' = [posts EXCEPT ![id].viewCount = @ + 1]
  /\ UNCHANGED <<now, settings, claims, proc, last>>

incrementLikes(id) ==
  /\ id \in DOMAIN posts
  /\ posts[id].likeCount < MaxCount
  /\ posts' = [posts EXCEPT ![id].likeCount = @ + 1]
  /\ UNCHANGED <<now, settings, claims, proc, last>>

(* ------------------------ Rate configuration -------------------------- *)
ActiveSettings == {i \in DOMAIN settings : settings[i].isActive}

findOneActive == CHOOSE i \in ActiveSettings : \A j \in ActiveSettings : i <= j

\* updateAdminSettings, first round trip: AdminSettings.find({isActive: true})
updateAdminSettingsFind(p, rates) ==
  /\ proc[p] = Idle
  /\ Len(settings) + InFlight("updateAdminSettings") < MaxSettings
  /\ proc' = [proc EXCEPT ![p] =
       [op |-> "updateAdminSettings",
        pc |-> IF ActiveSettings # {} THEN "deactivate" ELSE "insert",
        rates |-> rates]]
  /\ UNCHANGED <<now, posts, settings, claims, last>>

\* second round trip: AdminSettings.updateMany({isActive: true}, {isActive: false})
updateAdminSettingsDeactivate(p) ==
  /\ proc[p].op = "updateAdminSettings"
  /\ proc[p].pc = "deactivate"
  /\ settings' = [i \in DOMAIN settings |-> [settings[i] EXCEPT !.isActive = FALSE]]
  /\ proc' = [proc EXCEPT ![p].pc = "insert"]
  /\ UNCHANGED <<now, posts, claims, last>>

\* third round trip: newSettings.save(); the partial unique index on
\* {isActive: true} rejects the insert while another active record exists
updateAdminSettingsSave(p) ==
  /\ proc[p].op = "updateAdminSettings"
  /\ proc[p].pc = "insert"
  /\ settings' =
       IF ActiveSettings = {}
       THEN Append(settings, [ratePerLike |-> proc[p].rates[1],
                              ratePer100Views |-> proc[p].rates[2],
                              isActive |-> TRUE])
       ELSE settings
  /\ proc' = [proc EXCEPT ![p] = Idle]
  /\ UNCHANGED <<now, posts, claims, last>>

(* ---------------------- IEEE 754 double arithmetic --------------------- *)
\* JavaScript numbers are binary64.  A non-negative double is kept as
\* [m, e] with value m * 2^e; m is a natural number of up to 53 bits, held
\* as a little-endian sequence of digits to the base LimbBase.
LimbBits == 15
LimbBase == 2^LimbBits
MantissaBits == 53

RECURSIVE BFromInt(_)
BFromInt(n) == IF n = 0 THEN <<>> ELSE <<n % LimbBase>> \o BFromInt(n \div LimbBase)

RECURSIVE BToInt(_)
BToInt(a) == IF a = <<>> THEN 0 ELSE a[1] + LimbBase * BToInt(Tail(a))

RECURSIVE BNorm(_)
BNorm(a) ==
  IF a = <<>> THEN <<>>
  ELSE IF a[Len(a)] = 0 THEN BNorm(SubSeq(a, 1, Len(a) - 1))
  ELSE a

RECURSIVE BCmpFrom(_, _, _)
BCmpFrom(a, b, i) ==
  IF i = 0 THEN 0
  ELSE IF a[i] < b[i] THEN -1
  ELSE IF a[i] > b[i] THEN 1
  ELSE BCmpFrom(a, b, i - 1)

BCmp(a, b) ==
  IF Len(a) < Len(b) THEN -1
  ELSE IF Len(a) > Len(b) THEN 1
  ELSE BCmpFrom(a, b, Len(a))

Limb(a, i) == IF i <= Len(a) THEN a[i] ELSE 0

RECURSIVE BAddFrom(_, _, _, _)
BAddFrom(a, b, i, carry) ==
  IF i > Len(a) /\ i > Len(b)
  THEN IF carry = 0 THEN <<>> ELSE <<carry>>
  ELSE LET t == Limb(a, i) + Limb(b, i) + carry
       IN <<t % LimbBase>> \o BAddFrom(a, b, i + 1, t \div LimbBase)

BAdd(a, b) == BAddFrom(a, b, 1, 0)

\* a - b for a >= b
RECURSIVE BSubFrom(_, _, _, _)
BSubFrom(a, b, i, borrow) ==
  IF i > Len(a) THEN <<>>
  ELSE LET t == a[i] - Limb(b, i) - borrow
       IN IF t < 0
          THEN <<t + LimbBase>> \o BSubFrom(a, b, i + 1, 1)
          ELSE <<t>> \o BSubFrom(a, b, i + 1, 0)

BSub(a, b) == BNorm(BSubFrom(a, b, 1, 0))

RECURSIVE BMulLimbFrom(_, _, _, _)
BMulLimbFrom(a, k, i, carry) ==
  IF i > Len(a)
  THEN IF carry = 0 THEN <<>> ELSE <<carry>>
  ELSE LET t == a[i] * k + carry
       IN <<t % LimbBase>> \o BMulLimbFrom(a, k, i + 1, t \div LimbBase)

RECURSIVE BMul(_, _)
BMul(a, b) ==
  IF a = <<>> \/ b = <<>> THEN <<>>
  ELSE BAdd(BNorm(BMulLimbFrom(a, b[1], 1, 0)), <<0>> \o BMul(a, Tail(b)))

BDouble(a) == BAdd(a, a)

BPow2(k) == [i \in 1..(k \div LimbBits) |-> 0] \o <<2^(k % LimbBits)>>

RECURSIVE IntBitLen(_)
IntBitLen(n) == IF n = 0 THEN 0 ELSE 1 + IntBitLen(n \div 2)

BBitLen(a) == IF a = <<>> THEN 0 ELSE LimbBits * (Len(a) - 1) + IntBitLen(a[Len(a)])

\* the largest digit k in lo..hi with q * k <= r
RECURSIVE QuotientDigit(_, _, _, _)
QuotientDigit(r, q, lo, hi) ==
  IF lo = hi THEN lo
  ELSE LET mid == (lo + hi + 1) \div 2
       IN IF BCmp(BNorm(BMulLimbFrom(q, mid, 1, 0)), r) <= 0
          THEN QuotientDigit(r, q, mid, hi)
          ELSE QuotientDigit(r, q, lo, mid - 1)

\* quotient and remainder of p by q > 0, one digit of the quotient per level
RECURSIVE BDivMod(_, _)
BDivMod(p, q) ==
  IF BCmp(p, q) < 0 THEN [quot |-> <<>>, rem |-> p]
  ELSE LET high == BDivMod(p, <<0>> \o q)
           digit == QuotientDigit(high.rem, q, 0, LimbBase - 1)
       IN [quot |-> BNorm(<<digit>> \o high.quot),
           rem |-> BSub(high.rem, BNorm(BMulLimbFrom(q, digit, 1, 0)))]

BIsOdd(a) == a # <<>> /\ a[1] % 2 = 1

DZero == [m |-> <<>>, e |-> 0]

\* the double nearest to (p / q) * 2^e, ties to the even mantissa: p / q
\* is scaled by a power of two into [2^52, 2^53) and divided with remainder
RoundToDouble(p, q, e) ==
  IF p = <<>> THEN DZero
  ELSE LET k == MantissaBits + BBitLen(q) - BBitLen(p)
           num == IF k > 0 THEN BMul(p, BPow2(k)) ELSE p
           den == IF k < 0 THEN BMul(q, BPow2(-k)) ELSE q
           over == BCmp(num, BMul(den, BPow2(MantissaBits))) >= 0
           divisor == IF over THEN BDouble(den) ELSE den
           qr == BDivMod(num, divisor)
           tie == BCmp(BDouble(qr.rem), divisor)
       IN [m |-> IF tie > 0 \/ (tie = 0 /\ BIsOdd(qr.quot))
                 THEN BAdd(qr.quot, <<1>>) ELSE qr.quot,
           e |-> IF over THEN e - k + 1 ELSE e - k]

DFromInt(n) == [m |-> BFromInt(n), e |-> 0]

DMul(x, y) == RoundToDouble(BMul(x.m, y.m), <<1>>, x.e + y.e)

DDiv(x, y) == RoundToDouble(x.m, y.m, x.e - y.e)

DAdd(x, y) ==
  IF x.m = <<>> THEN y
  ELSE IF y.m = <<>> THEN x
  ELSE LET e == IF x.e < y.e THEN x.e ELSE y.e
       IN RoundToDouble(BAdd(BMul(x.m, BPow2(x.e - e)), BMul(y.m, BPow2(y.e - e))),
                        <<1>>, e)

\* Math.round(x) for x >= 0: floor(x + 1/2), computed exactly
MathRound(x) ==
  IF x.m = <<>> THEN 0
  ELSE IF x.e >= 0 THEN BToInt(BMul(x.m, BPow2(x.e)))
  ELSE BToInt(BDivMod(BAdd(BDouble(x.m), BPow2(-x.e)), BPow2(1 - x.e)).quot)

\* the double a decimal literal of n hundredths evaluates to
DHundredths(n) == DDiv(DFromInt(n), DFromInt(100))

(* ------------------------ Earnings calculator ------------------------- *)
\* the order in which Post.find returns documents (the order of insertion)
PostOrder == <<"p1", "p2", "p3">>

\* for (const post of posts) totalEarnings += likeEarnings + viewEarnings,
\* over the first n documents; rates are given in hundredths
RECURSIVE SumEarnings(_, _, _)
SumEarnings(found, ids, s) ==
  IF ids = <<>> THEN DZero
  ELSE LET post == found[ids[Len(ids)]]
           likeEarnings == DMul(DFromInt(post.likeCount), DHundredths(s.ratePerLike))
           viewEarnings == DMul(DDiv(DFromInt(post.viewCount), DFromInt(100)),
                                DHundredths(s.ratePer100Views))
       IN DAdd(SumEarnings(found, SubSeq(ids, 1, Len(ids) - 1), s),
               DAdd(likeEarnings, viewEarnings))

\* Math.round(totalEarnings * 100) / 100, as a number of hundredths
calculateEarnings(found, s) ==
  MathRound(DMul(SumEarnings(found,
                             SelectSeq(PostOrder, LAMBDA id : id \in DOMAIN found), s),
                 DFromInt(100)))

(* ----------------------------- createClaim ---------------------------- *)
\* variant: the duplicate test of the input is left out
NoDuplicateTest(ids) == FALSE

HasDuplicates(ids) == Cardinality(Range(ids)) # Len(ids)

\* variant: the pre-check looks at active claims only
activeClaimsWithSamePosts(ids) ==
  {c \in DOMAIN claims :
     claims[c].isActive /\ Range(claims[c].postIds) \cap Range(ids) # {}}

\* Claim.find({postIds: {$in: ids}})
existingClaimsWithSamePosts(ids) ==
  {c \in DOMAIN claims : Range(claims[c].postIds) \cap Range(ids) # {}}

\* an element of a postIds array: an ObjectId, or after populate the Post
\* document that carries this _id
ObjectId(id) == [_id |-> id, populated |-> FALSE]

PostExists(id) == id \in DOMAIN posts

\* populate('postIds', 'contentText'): every id whose Post is stored is
\* replaced by that document, an id without a stored Post is removed
populate(ids) ==
  LET kept == SelectSeq(ids, PostExists) IN
  [i \in DOMAIN kept |-> [_id |-> kept[i], populated |-> TRUE]]

\* toString(): the hex digits of an ObjectId; of a document, the text of its
\* inspection ("{ _id: new ObjectId(...), contentText: ... }")
toString(x) ==
  [text |-> IF x.populated THEN "inspect" ELSE "hex", of |-> x._id]

\* the forEach over the populated postIds of the claims found: the entries
\* whose string is among the strings of the requested ids, with the status
matchingPostDetails(ids) ==
  LET requested == {toString(ObjectId(id)) : id \in Range(ids)} IN
  UNION {{<<toString(x), claims[c].status>> :
            x \in {y \in Range(populate(claims[c].postIds)) : toString(y) \in requested}} :
           c \in existingClaimsWithSamePosts(ids)}

alreadyClaimedPostDetails(ids) == matchingPostDetails(ids)

CreateFail(a, kind, detail) ==
  last' = Outcome("createClaim", a, kind, {}, detail)

\* validation of the input, then the duplicate pre-check (first round trip)
createClaimFind(p, userId, postIds) ==
  LET a == Args(userId, 0, postIds, 0, NULL, FALSE) IN
  /\ proc[p] = Idle
  /\ IF userId = NULL \/ Len(postIds) = 0 \/ HasDuplicates(postIds)
     THEN /\ CreateFail(a, "InvalidInput", {})
          /\ UNCHANGED proc
     ELSE IF existingClaimsWithSamePosts(postIds) # {}
     THEN /\ CreateFail(a, "DuplicateClaim", alreadyClaimedPostDetails(postIds))
          /\ UNCHANGED proc
     ELSE /\ Len(claims) + InFlight("createClaim") < MaxClaims
          /\ proc' = [proc EXCEPT ![p] =
                 [op |-> "createClaim", pc |-> "posts", a |-> a]]
          /\ UNCHANGED last
  /\ UNCHANGED <<now, posts, settings, claims>>

\* Post.find({_id: {$in: ids}}) and the ownership filter
invalidPosts(ids, userId) ==
  {id \in Range(ids) \cap DOMAIN posts : posts[id].userId # userId}

createClaimPosts(p) ==
  /\ proc[p].op = "createClaim"
  /\ proc[p].pc = "posts"
  /\ IF invalidPosts(proc[p].a.postIds, proc[p].a.userId) # {}
     THEN /\ CreateFail(proc[p].a, "ForbiddenPost",
                        invalidPosts(proc[p].a.postIds, proc[p].a.userId))
          /\ proc' = [proc EXCEPT ![p] = Idle]
     ELSE /\ proc' = [proc EXCEPT ![p].pc = "calcPosts"]
          /\ UNCHANGED last
  /\ UNCHANGED <<now, posts, settings, claims>>

\* calculateEarnings, Post.find: the counters are read here
createClaimCalcPosts(p) ==
  /\ proc[p].op = "createClaim"
  /\ proc[p].pc = "calcPosts"
  /\ proc' = [proc EXCEPT ![p] =
       [op |-> "createClaim", pc |-> "calcSettings", a |-> proc[p].a,
        found |-> [id \in Range(proc[p].a.postIds) \cap DOMAIN posts |->
                     [likeCount |-> posts[id].likeCount,
                      viewCount |-> posts[id].viewCount]]]]
  /\ UNCHANGED <<now, posts, settings, claims, last>>

\* variant: without an active record the default rates are used
createClaimCalcDefaultRates(p) ==
  /\ proc[p].op = "createClaim"
  /\ proc[p].pc = "calcSettings"
  /\ proc' = [proc EXCEPT ![p] =
       [op |-> "createClaim", pc |-> "save", a |-> proc[p].a,
        earnings |-> calculateEarnings(proc[p].found,
                       IF ActiveSettings = {}
                       THEN [ratePerLike |-> 1, ratePer100Views |-> 50]
                       ELSE settings[findOneActive])]]
  /\ UNCHANGED <<now, posts, settings, claims, last>>

\* calculateEarnings, AdminSettings.findOne({isActive: true}) and the sum
createClaimCalcSettings(p) ==
  /\ proc[p].op = "createClaim"
  /\ proc[p].pc = "calcSettings"
  /\ IF ActiveSettings = {}
     THEN /\ CreateFail(proc[p].a, "ConfigurationMissing", {})
          /\ proc' = [proc EXCEPT ![p] = Idle]
     ELSE /\ proc' = [proc EXCEPT ![p] =
                 [op |-> "createClaim", pc |-> "save", a |-> proc[p].a,
                  earnings |-> calculateEarnings(proc[p].found,
                                                 settings[findOneActive])]]
          /\ UNCHANGED last
  /\ UNCHANGED <<now, posts, settings, claims>>

\* variant: the claim is stored without its submitted entry
NewClaimWithoutHistory(a, earnings) ==
  [userId |-> a.userId, postIds |-> a.postIds, calculatedEarnings |-> earnings,
   status |-> "pending", lockedBy |-> NULL, lockTimestamp |-> -1,
   deductionAmount |-> 0, deductionReason |-> NULL, reviewedBy |-> NULL,
   finalApprovedBy |-> NULL, history |-> <<>>,
   createdBy |-> a.userId, updatedBy |-> a.userId, isActive |-> TRUE]

NewClaim(a, earnings) ==
  [userId |-> a.userId, postIds |-> a.postIds, calculatedEarnings |-> earnings,
   status |-> "pending", lockedBy |-> NULL, lockTimestamp |-> -1,
   deductionAmount |-> 0, deductionReason |-> NULL, reviewedBy |-> NULL,
   finalApprovedBy |-> NULL,
   history |-> <<[action |-> "submitted", by |-> a.userId, note |-> NULL]>>,
   createdBy |-> a.userId, updatedBy |-> a.userId, isActive |-> TRUE]

newClaimEvents(doc) ==
  IF ioInstance
  THEN {Event("new_claim", {"role_account", "role_admin"}, doc.status),
        Event("new_claim", {"all"}, doc.status)}
  ELSE {}

\* claim.save() and the new_claim notification
createClaimSave(p) ==
  /\ proc[p].op = "createClaim"
  /\ proc[p].pc = "save"
  /\ LET doc == NewClaim(proc[p].a, proc[p].earnings) IN
       /\ claims' = Append(claims, doc)
       /\ last' = Outcome("createClaim", [proc[p].a EXCEPT !.claimId = Len(claims) + 1],
                          "ok", newClaimEvents(doc), {})
  /\ proc' = [proc EXCEPT ![p] = Idle]
  /\ UNCHANGED <<now, posts, settings>>

\* claim.save() succeeds and the first emit on the channel throws: the catch
\* block of createClaim rethrows it as "Error creating claim"
createClaimEmitThrows(p) ==
  /\ ioInstance
  /\ proc[p].op = "createClaim"
  /\ proc[p].pc = "save"
  /\ LET doc == NewClaim(proc[p].a, proc[p].earnings) IN
       /\ claims' = Append(claims, doc)
       /\ last' = Outcome("createClaim", [proc[p].a EXCEPT !.claimId = Len(claims) + 1],
                          "Error", {}, {})
  /\ proc' = [proc EXCEPT ![p] = Idle]
  /\ UNCHANGED <<now, posts, settings>>

\* checkPostsAlreadyClaimed behind its controller: one query, no write
checkPostsAlreadyClaimed(p, userId, postIds) ==
  LET a == Args(userId, 0, postIds, 0, NULL, FALSE)
      conflictingPosts == matchingPostDetails(postIds) IN
  /\ proc[p] = Idle
  /\ last' = IF Len(postIds) = 0
             THEN Outcome("checkPostsAlreadyClaimed", a, "InvalidInput", {}, {})
             ELSE IF existingClaimsWithSamePosts(postIds) = {}
             THEN Outcome("checkPostsAlreadyClaimed", a, "false", {}, {})
             ELSE Outcome("checkPostsAlreadyClaimed", a,
                          IF conflictingPosts # {} THEN "true" ELSE "false",
                          {}, conflictingPosts)
  /\ UNCHANGED <<now, posts, settings, claims, proc>>

(* ------------------------- lifecycle operations ----------------------- *)
\* claim.history.filter(entry => validActions.includes(entry.action))
\* variant: the history is appended to as it was read
KeepHistory(h) == h

PurgeHistory(h) == SelectSeq(h, LAMBDA e : e.action \in validActions)

Entry(action, by, note) == [action |-> action, by |-> by, note |-> note]

\* variant: the failure is announced to every client
LifecycleFailAnnounced(op, a, kind) ==
  /\ last' = Outcome(op, a, kind, {Event("claim_status_changed", {"all"}, kind)}, {})
  /\ UNCHANGED proc

LifecycleFail(op, a, kind) ==
  /\ last' = Outcome(op, a, kind, {}, {})
  /\ UNCHANGED proc

\* the document is mutated in memory and handed to claim.save()
Prepare(p, op, a, doc, local) ==
  /\ Len(doc.history) < MaxHistory
  /\ proc' = [proc EXCEPT ![p] =
       [op |-> op, pc |-> "save", a |-> a, loaded |-> doc, local |-> local]]
  /\ UNCHANGED last

\* variant: the deduction is also taken off the stored earnings
applyDeductionNetting(doc, amount, reason, reviewerId) ==
  [doc EXCEPT
     !.history = Append(PurgeHistory(doc.history),
                        Entry("deduction_applied", reviewerId, <<"Deduction applied: ", reason>>)),
     !.calculatedEarnings = @ - amount,
     !.deductionAmount = amount,
     !.deductionReason = reason,
     !.status = "deducted",
     !.reviewedBy = reviewerId,
     !.updatedBy = reviewerId]

applyDeductionDoc(doc, amount, reason, reviewerId) ==
  [doc EXCEPT
     !.history = Append(PurgeHistory(doc.history),
                        Entry("deduction_applied", reviewerId, <<"Deduction applied: ", reason>>)),
     !.deductionAmount = amount,
     !.deductionReason = reason,
     !.status = "deducted",
     !.reviewedBy = reviewerId,
     !.updatedBy = reviewerId]

\* variant: a deduction equal to the earnings is let through
deductionAboveEarnings(amount, claim) ==
  \/ amount <= 0
  \/ amount > claim.calculatedEarnings

\* variant: only the sign of the deduction is tested
deductionNotPositive(amount, claim) == amount <= 0

\* amount <= 0, or amount >= claim.calculatedEarnings
invalidDeductionAmount(amount, claim) ==
  \/ amount <= 0
  \/ amount >= claim.calculatedEarnings

applyDeduction(p, claimId, amount, reason, reviewerId) ==
  LET a == Args(reviewerId, claimId, <<>>, amount, reason, FALSE) IN
  /\ proc[p] = Idle
  /\ IF claimId \notin DOMAIN claims
     THEN LifecycleFail("applyDeduction", a, "NotFound")
     ELSE LET claim == claims[claimId] IN
       IF claim.status # "pending"
       THEN LifecycleFail("applyDeduction", a, "InvalidStateTransition")
       ELSE IF invalidDeductionAmount(amount, claim)
       THEN LifecycleFail("applyDeduction", a, "InvalidDeduction")
       ELSE Prepare(p, "applyDeduction", a, claim,
                    applyDeductionDoc(claim, amount, reason, reviewerId))
  /\ UNCHANGED <<now, posts, settings, claims>>

\* variant: a rejection by the owner reopens the claim
respondReopening(doc, accepted, userId) ==
  LET h == Append(PurgeHistory(doc.history),
                  Entry(IF accepted THEN "user_accepted" ELSE "user_rejected", userId,
                        IF accepted THEN "User accepted the deduction"
                                    ELSE "User rejected the deduction"))
  IN IF accepted
     THEN [doc EXCEPT !.history = h, !.status = "user_accepted", !.updatedBy = userId]
     ELSE [doc EXCEPT !.history = h, !.status = "pending",
                      !.deductionAmount = 0, !.deductionReason = "",
                      !.updatedBy = userId]

\* variant: the deduction is cleared whatever the response
respondClearingDeduction(doc, accepted, userId) ==
  [doc EXCEPT
     !.history = Append(PurgeHistory(doc.history),
                        Entry(IF accepted THEN "user_accepted" ELSE "user_rejected",
                              userId, NULL)),
     !.status = IF accepted THEN "user_accepted" ELSE "user_rejected",
     !.deductionAmount = 0,
     !.deductionReason = "",
     !.updatedBy = userId]

\* variant: a rejection keeps the deduction on the claim
respondKeepingDeduction(doc, accepted, userId) ==
  [doc EXCEPT
     !.history = Append(PurgeHistory(doc.history),
                        Entry(IF accepted THEN "user_accepted" ELSE "user_rejected",
                              userId, NULL)),
     !.status = IF accepted THEN "user_accepted" ELSE "user_rejected",
     !.updatedBy = userId]

respondToDeductionDoc(doc, accepted, userId) ==
  LET h == Append(PurgeHistory(doc.history),
                  Entry(IF accepted THEN "user_accepted" ELSE "user_rejected", userId,
                        IF accepted THEN "User accepted the deduction"
                                    ELSE "User rejected the deduction"))
  IN IF accepted
     THEN [doc EXCEPT !.history = h, !.status = "user_accepted", !.updatedBy = userId]
     ELSE [doc EXCEPT !.history = h, !.status = "user_rejected",
                      !.deductionAmount = 0, !.deductionReason = "",
                      !.updatedBy = userId]

\* variant: the caller is not compared with the owner
anyCaller(userId, claim) == TRUE

\* userIdStr === claimUserIdStr
isClaimOwner(userId, claim) == userId = claim.userId

\* variant: the caller is compared with the owner before the status is tested
respondToDeductionOwnerFirst(p, claimId, accepted, userId) ==
  LET a == Args(userId, claimId, <<>>, 0, NULL, accepted) IN
  /\ proc[p] = Idle
  /\ IF claimId \notin DOMAIN claims
     THEN LifecycleFail("respondToDeduction", a, "NotFound")
     ELSE LET claim == claims[claimId] IN
       IF ~isClaimOwner(userId, claim)
       THEN LifecycleFail("respondToDeduction", a, "Unauthorized")
       ELSE IF claim.status # "deducted"
       THEN LifecycleFail("respondToDeduction", a, "InvalidStateTransition")
       ELSE Prepare(p, "respondToDeduction", a, claim,
                    respondToDeductionDoc(claim, accepted, userId))
  /\ UNCHANGED <<now, posts, settings, claims>>

respondToDeduction(p, claimId, accepted, userId) ==
  LET a == Args(userId, claimId, <<>>, 0, NULL, accepted) IN
  /\ proc[p] = Idle
  /\ IF claimId \notin DOMAIN claims
     THEN LifecycleFail("respondToDeduction", a, "NotFound")
     ELSE LET claim == claims[claimId] IN
       IF claim.status # "deducted"
       THEN LifecycleFail("respondToDeduction", a, "InvalidStateTransition")
       ELSE IF ~isClaimOwner(userId, claim)
       THEN LifecycleFail("respondToDeduction", a, "Unauthorized")
       ELSE Prepare(p, "respondToDeduction", a, claim,
                    respondToDeductionDoc(claim, accepted, userId))
  /\ UNCHANGED <<now, posts, settings, claims>>

\* variant: the approval is not entered in the history
accountApproveSilent(doc, reviewerId) ==
  [doc EXCEPT
     !.history = PurgeHistory(doc.history),
     !.status = "account_approved",
     !.reviewedBy = reviewerId,
     !.updatedBy = reviewerId]

accountApproveDoc(doc, reviewerId) ==
  [doc EXCEPT
     !.history = Append(PurgeHistory(doc.history),
                        Entry("account_approved", reviewerId,
                              "Claim approved by account reviewer")),
     !.status = "account_approved",
     !.reviewedBy = reviewerId,
     !.updatedBy = reviewerId]

\* variant: a claim locked by another actor cannot be approved
accountApproveUnlessLocked(p, claimId, reviewerId) ==
  LET a == Args(reviewerId, claimId, <<>>, 0, NULL, FALSE) IN
  /\ proc[p] = Idle
  /\ IF claimId \notin DOMAIN claims
     THEN LifecycleFail("accountApprove", a, "NotFound")
     ELSE LET claim == claims[claimId] IN
       IF claim.lockedBy # NULL /\ claim.lockedBy # reviewerId
       THEN LifecycleFail("accountApprove", a, "Locked")
       ELSE IF claim.status # "pending" /\ claim.status # "user_rejected"
       THEN LifecycleFail("accountApprove", a, "InvalidStateTransition")
       ELSE Prepare(p, "accountApprove", a, claim, accountApproveDoc(claim, reviewerId))
  /\ UNCHANGED <<now, posts, settings, claims>>

accountApprove(p, claimId, reviewerId) ==
  LET a == Args(reviewerId, claimId, <<>>, 0, NULL, FALSE) IN
  /\ proc[p] = Idle
  /\ IF claimId \notin DOMAIN claims
     THEN LifecycleFail("accountApprove", a, "NotFound")
     ELSE LET claim == claims[claimId] IN
       IF claim.status # "pending" /\ claim.status # "user_rejected"
       THEN LifecycleFail("accountApprove", a, "InvalidStateTransition")
       ELSE Prepare(p, "accountApprove", a, claim, accountApproveDoc(claim, reviewerId))
  /\ UNCHANGED <<now, posts, settings, claims>>

accountRejectDoc(doc, reviewerId, reason) ==
  [doc EXCEPT
     !.history = Append(PurgeHistory(doc.history),
                        Entry("user_rejected", reviewerId, reason)),
     !.status = "user_rejected",
     !.reviewedBy = reviewerId,
     !.updatedBy = reviewerId,
     !.deductionReason = reason]

\* variant: a claim under deduction can be rejected too
accountRejectDeducted(p, claimId, reviewerId, reason) ==
  LET a == Args(reviewerId, claimId, <<>>, 0, reason, FALSE) IN
  /\ proc[p] = Idle
  /\ IF claimId \notin DOMAIN claims
     THEN LifecycleFail("accountReject", a, "NotFound")
     ELSE LET claim == claims[claimId] IN
       IF claim.status \notin {"pending", "user_rejected", "deducted"}
       THEN LifecycleFail("accountReject", a, "InvalidStateTransition")
       ELSE Prepare(p, "accountReject", a, claim,
                    accountRejectDoc(claim, reviewerId, reason))
  /\ UNCHANGED <<now, posts, settings, claims>>

\* variant: only a pending claim can be rejected
accountRejectPendingOnly(p, claimId, reviewerId, reason) ==
  LET a == Args(reviewerId, claimId, <<>>, 0, reason, FALSE) IN
  /\ proc[p] = Idle
  /\ IF claimId \notin DOMAIN claims
     THEN LifecycleFail("accountReject", a, "NotFound")
     ELSE LET claim == claims[claimId] IN
       IF claim.status # "pending"
       THEN LifecycleFail("accountReject", a, "InvalidStateTransition")
       ELSE Prepare(p, "accountReject", a, claim,
                    accountRejectDoc(claim, reviewerId, reason))
  /\ UNCHANGED <<now, posts, settings, claims>>

accountReject(p, claimId, reviewerId, reason) ==
  LET a == Args(reviewerId, claimId, <<>>, 0, reason, FALSE) IN
  /\ proc[p] = Idle
  /\ IF claimId \notin DOMAIN claims
     THEN LifecycleFail("accountReject", a, "NotFound")
     ELSE LET claim == claims[claimId] IN
       IF claim.status # "pending" /\ claim.status # "user_rejected"
       THEN LifecycleFail("accountReject", a, "InvalidStateTransition")
       ELSE Prepare(p, "accountReject", a, claim,
                    accountRejectDoc(claim, reviewerId, reason))
  /\ UNCHANGED <<now, posts, settings, claims>>

\* variant: the final approval settles the claim
adminApproveSettling(doc, adminId) ==
  [doc EXCEPT
     !.history = Append(PurgeHistory(doc.history),
                        Entry("settled", adminId, "Claim finally approved by admin")),
     !.status = "settled",
     !.finalApprovedBy = adminId,
     !.updatedBy = adminId]

adminApproveDoc(doc, adminId) ==
  [doc EXCEPT
     !.history = Append(PurgeHistory(doc.history),
                        Entry("admin_approved", adminId,
                              "Claim finally approved by admin")),
     !.status = "admin_approved",
     !.finalApprovedBy = adminId,
     !.updatedBy = adminId]

\* variant: only a claim the owner accepted can be finally approved
adminApproveAcceptedOnly(p, claimId, adminId) ==
  LET a == Args(adminId, claimId, <<>>, 0, NULL, FALSE) IN
  /\ proc[p] = Idle
  /\ IF claimId \notin DOMAIN claims
     THEN LifecycleFail("adminApprove", a, "NotFound")
     ELSE LET claim == claims[claimId] IN
       IF claim.status # "user_accepted"
       THEN LifecycleFail("adminApprove", a, "InvalidStateTransition")
       ELSE Prepare(p, "adminApprove", a, claim, adminApproveDoc(claim, adminId))
  /\ UNCHANGED <<now, posts, settings, claims>>

adminApprove(p, claimId, adminId) ==
  LET a == Args(adminId, claimId, <<>>, 0, NULL, FALSE) IN
  /\ proc[p] = Idle
  /\ IF claimId \notin DOMAIN claims
     THEN LifecycleFail("adminApprove", a, "NotFound")
     ELSE LET claim == claims[claimId] IN
       IF claim.status # "account_approved" /\ claim.status # "user_accepted"
       THEN LifecycleFail("adminApprove", a, "InvalidStateTransition")
       ELSE Prepare(p, "adminApprove", a, claim, adminApproveDoc(claim, adminId))
  /\ UNCHANGED <<now, posts, settings, claims>>

\* variant: save writes the whole in-memory document over the stored one
SaveWholeDoc(cur, loaded, local) == local

\* claim.save() of a loaded document: mongoose writes the paths whose value
\* differs from the loaded one ($set) and appends the pushed history entry to
\* the stored array ($push); a history that the purge changed is written whole
SaveDoc(cur, loaded, local) ==
  [userId |-> cur.userId,
   postIds |-> cur.postIds,
   calculatedEarnings |-> IF local.calculatedEarnings # loaded.calculatedEarnings
                          THEN local.calculatedEarnings ELSE cur.calculatedEarnings,
   status |-> IF local.status # loaded.status THEN local.status ELSE cur.status,
   lockedBy |-> IF local.lockedBy # loaded.lockedBy THEN local.lockedBy ELSE cur.lockedBy,
   lockTimestamp |-> IF local.lockTimestamp # loaded.lockTimestamp
                     THEN local.lockTimestamp ELSE cur.lockTimestamp,
   deductionAmount |-> IF local.deductionAmount # loaded.deductionAmount
                       THEN local.deductionAmount ELSE cur.deductionAmount,
   deductionReason |-> IF local.deductionReason # loaded.deductionReason
                       THEN local.deductionReason ELSE cur.deductionReason,
   reviewedBy |-> IF local.reviewedBy # loaded.reviewedBy
                  THEN local.reviewedBy ELSE cur.reviewedBy,
   finalApprovedBy |-> IF local.finalApprovedBy # loaded.finalApprovedBy
                       THEN local.finalApprovedBy ELSE cur.finalApprovedBy,
   history |-> IF local.history = loaded.history THEN cur.history
               ELSE IF PurgeHistory(loaded.history) # loaded.history
               THEN local.history
               ELSE Append(cur.history, local.history[Len(local.history)]),
   createdBy |-> cur.createdBy,
   updatedBy |-> IF local.updatedBy # loaded.updatedBy
                 THEN local.updatedBy ELSE cur.updatedBy,
   isActive |-> cur.isActive]

Room(userId) == IF userId = "u1" THEN "user_u1" ELSE "user_u2"

\* the notification data of applyDeduction carries the final amount
DeductionEvent(name, to, saved) ==
  [event |-> name, to |-> to, status |-> saved.status,
   finalAmount |-> saved.calculatedEarnings - saved.deductionAmount]

lifecycleEvents(op, saved) ==
  IF ~ioInstance THEN {}
  ELSE IF op = "applyDeduction"
  THEN {DeductionEvent("deduction_applied", {Room(saved.userId)}, saved),
        DeductionEvent("claim_status_changed", {"all"}, saved)}
  ELSE IF op = "respondToDeduction"
  THEN {Event("deduction_response", {"all"}, saved.status),
        Event("claim_status_changed", {"all"}, saved.status)}
  ELSE IF op = "accountReject"
  THEN {Event("claim_status_changed", {"all"}, saved.status),
        Event("claim_status_changed", {Room(saved.userId)}, saved.status),
        Event("claim_status_changed", {"role_admin"}, saved.status)}
  ELSE {Event("claim_status_changed", {"all"}, saved.status)}

\* variant: the notification data is taken from the document as it was read
lifecycleSaveAnnouncingLoaded(p) ==
  /\ proc[p].pc = "save"
  /\ proc[p].op \notin {"createClaim", "lockClaim", "unlockClaim"}
  /\ LET r == proc[p]
         id == r.a.claimId
         after == SaveDoc(claims[id], r.loaded, r.local)
     IN /\ claims' = [claims EXCEPT ![id] = after]
        /\ last' = Outcome(r.op, r.a, "ok", lifecycleEvents(r.op, r.loaded), {})
  /\ proc' = [proc EXCEPT ![p] = Idle]
  /\ UNCHANGED <<now, posts, settings>>

lifecycleSave(p) ==
  /\ proc[p].pc = "save"
  /\ proc[p].op \notin {"createClaim", "lockClaim", "unlockClaim"}
  /\ LET r == proc[p]
         id == r.a.claimId
         after == SaveDoc(claims[id], r.loaded, r.local)
     IN /\ claims' = [claims EXCEPT ![id] = after]
        /\ last' = Outcome(r.op, r.a, "ok", lifecycleEvents(r.op, r.local), {})
  /\ proc' = [proc EXCEPT ![p] = Idle]
  /\ UNCHANGED <<now, posts, settings>>

\* claim.save() succeeds and the first emit on the channel throws: the catch
\* block of the lifecycle method rethrows it
lifecycleEmitThrows(p) ==
  /\ ioInstance
  /\ proc[p].pc = "save"
  /\ proc[p].op \notin {"createClaim", "lockClaim", "unlockClaim"}
  /\ LET r == proc[p]
         id == r.a.claimId
     IN /\ claims' = [claims EXCEPT ![id] = SaveDoc(claims[id], r.loaded, r.local)]
        /\ last' = Outcome(r.op, r.a, "Error", {}, {})
  /\ proc' = [proc EXCEPT ![p] = Idle]
  /\ UNCHANGED <<now, posts, settings>>

(* ------------------------------ locking -------------------------------- *)
\* the clock counts units of ten minutes: 30 * 60 * 1000 ms are three units
MaxTime == 4

LockTimeout == 3

\* any authenticated user may ask for a lock; two of them are enough here
LockActors == {"acc", "adm"}

callerSocket(userId) == IF userId = "acc" THEN "socket_acc" ELSE "socket_adm"

\* variant: a lock of another actor blocks whatever its age
lockHeldForever(claim, userId, t) ==
  /\ claim.lockedBy # NULL
  /\ claim.lockedBy # userId

\* claim.lockedBy is set, is not the caller, and is younger than 30 minutes
lockHeldByOther(claim, userId, t) ==
  /\ claim.lockedBy # NULL
  /\ claim.lockedBy # userId
  /\ t - claim.lockTimestamp < LockTimeout

lockClaimDoc(doc, userId, t) ==
  [doc EXCEPT !.lockedBy = userId, !.lockTimestamp = t]

\* ClaimService.lockClaim up to claim.save(), with what the lock_claim
\* handler of the socket sends when the call returns false or throws
lockClaim(p, claimId, userId) ==
  LET a == Args(userId, claimId, <<>>, 0, NULL, FALSE) IN
  /\ proc[p] = Idle
  /\ IF claimId \notin DOMAIN claims
     THEN /\ last' = Outcome("lockClaim", a, "NotFound",
                             {Event("error", {callerSocket(userId)}, NULL)}, {})
          /\ UNCHANGED proc
     ELSE LET claim == claims[claimId] IN
       IF claim.lockedBy # NULL /\ claim.lockedBy # userId /\ claim.lockTimestamp = -1
       THEN /\ last' = Outcome("lockClaim", a, "TypeError",
                               {Event("error", {callerSocket(userId)}, NULL)}, {})
            /\ UNCHANGED proc
       ELSE IF lockHeldByOther(claim, userId, now)
       THEN /\ last' = Outcome("lockClaim", a, "false",
                               {Event("lock_failed", {callerSocket(userId)}, NULL)}, {})
            /\ UNCHANGED proc
       ELSE /\ proc' = [proc EXCEPT ![p] =
                 [op |-> "lockClaim", pc |-> "save", a |-> a, loaded |-> claim,
                  local |-> lockClaimDoc(claim, userId, now)]]
            /\ UNCHANGED last
  /\ UNCHANGED <<now, posts, settings, claims>>

\* claim.save() of lockClaim, return true, and the claim_locked broadcast
lockClaimSave(p) ==
  /\ proc[p].pc = "save"
  /\ proc[p].op = "lockClaim"
  /\ LET r == proc[p]
         id == r.a.claimId
     IN /\ claims' = [claims EXCEPT ![id] = SaveDoc(claims[id], r.loaded, r.local)]
        /\ last' = Outcome("lockClaim", r.a, "true",
                           {Event("claim_locked", {"all"}, NULL)}, {})
  /\ proc' = [proc EXCEPT ![p] = Idle]
  /\ UNCHANGED <<now, posts, settings>>

\* variant: the lock is cleared whoever asks
unlockByAnyone(claim, userId) == claim.lockedBy # NULL

\* claim.lockedBy?.toString() === userId.toString()
isLockHolder(claim, userId) == claim.lockedBy = userId

unlockClaimDoc(doc) == [doc EXCEPT !.lockedBy = NULL, !.lockTimestamp = -1]

\* ClaimService.unlockClaim up to claim.save(); the unlock_claim handler
\* broadcasts claim_unlocked whether or not anything was cleared
unlockClaim(p, claimId, userId) ==
  LET a == Args(userId, claimId, <<>>, 0, NULL, FALSE) IN
  /\ proc[p] = Idle
  /\ IF claimId \notin DOMAIN claims
     THEN /\ last' = Outcome("unlockClaim", a, "NotFound",
                             {Event("error", {callerSocket(userId)}, NULL)}, {})
          /\ UNCHANGED proc
     ELSE LET claim == claims[claimId] IN
       IF isLockHolder(claim, userId)
       THEN /\ proc' = [proc EXCEPT ![p] =
                 [op |-> "unlockClaim", pc |-> "save", a |-> a, loaded |-> claim,
                  local |-> unlockClaimDoc(claim)]]
            /\ UNCHANGED last
       ELSE /\ last' = Outcome("unlockClaim", a, "ok",
                               {Event("claim_unlocked", {"all"}, NULL)}, {})
            /\ UNCHANGED proc
  /\ UNCHANGED <<now, posts, settings, claims>>

unlockClaimSave(p) ==
  /\ proc[p].pc = "save"
  /\ proc[p].op = "unlockClaim"
  /\ LET r == proc[p]
         id == r.a.claimId
     IN /\ claims' = [claims EXCEPT ![id] = SaveDoc(claims[id], r.loaded, r.local)]
        /\ last' = Outcome("unlockClaim", r.a, "ok",
                           {Event("claim_unlocked", {"all"}, NULL)}, {})
  /\ proc' = [proc EXCEPT ![p] = Idle]
  /\ UNCHANGED <<now, posts, settings>>

\* time passes between requests; a request is over well within one unit
Tick ==
  /\ now < MaxTime
  /\ \A p \in Procs : proc[p] = Idle
  /\ now' = now + 1
  /\ UNCHANGED <<posts, settings, claims, proc, last>>

(* ------------------------------- roles --------------------------------- *)
Actors == Users \cup Reviewers \cup Admins

Role(actor) ==
  IF actor \in Users THEN "user"
  ELSE IF actor \in Reviewers THEN "account"
  ELSE "admin"

RoutedOps ==
  {"createClaim", "applyDeduction", "respondToDeduction", "accountApprove",
   "accountReject", "adminApprove"}

\* variant: the submission route is open to reviewers too
RouteRolesOpenSubmit(op) ==
  CASE op = "createClaim" -> {"user", "account"}
    [] op = "respondToDeduction" -> {"user"}
    [] op \in {"applyDeduction", "accountApprove", "accountReject"} -> {"account"}
    [] op = "adminApprove" -> {"admin"}

\* the roles each route of the claims router names in requireRole
RouteRoles(op) ==
  CASE op = "createClaim" -> {"user"}
    [] op = "respondToDeduction" -> {"user"}
    [] op \in {"applyDeduction", "accountApprove", "accountReject"} -> {"account"}
    [] op = "adminApprove" -> {"admin"}

\* the role test at the head of each controller; submitClaim has none
ControllerRoles(op) ==
  CASE op = "createClaim" -> {"user", "account", "admin"}
    [] op = "respondToDeduction" -> {"user"}
    [] op \in {"applyDeduction", "accountApprove", "accountReject"} -> {"account"}
    [] op = "adminApprove" -> {"admin"}

\* the middleware lets a request pass when the actor's role is listed
requireRole(roles, actor) == Role(actor) \in roles

Authorized(op, actor) ==
  /\ requireRole(RouteRoles(op), actor)
  /\ Role(actor) \in ControllerRoles(op)

\* a request the middleware or the controller turns away (403) before any
\* service call
Forbidden(p, op, actor) ==
  /\ proc[p] = Idle
  /\ ~Authorized(op, actor)
  /\ last' = Outcome(op, Args(actor, 0, <<>>, 0, NULL, FALSE), "Forbidden", {}, {})
  /\ UNCHANGED <<now, posts, settings, claims, proc>>

(* ------------------------------- system -------------------------------- *)
\* the stores before any request
Init ==
  /\ posts = [id \in PostIds |-> NewPost(PostOwner[id])]
  /\ settings = <<>>
  /\ claims = <<>>
  /\ proc = [p \in Procs |-> Idle]
  /\ last = Outcome("none", NoArgs, "none", {}, {})
  /\ now = 0

OwnPostRequests == {<<"p1">>, <<"p1", "p2">>}

PostStep ==
  \/ \E id \in EngagedPosts : incrementViews(id)
  \/ \E id \in EngagedPosts : incrementLikes(id)

SettingsStep(p) ==
  \/ \E r \in RatePairs : updateAdminSettingsFind(p, r)
  \/ updateAdminSettingsDeactivate(p)
  \/ updateAdminSettingsSave(p)

CreateStep(p, callers, requests) ==
  \/ \E u \in callers, ids \in requests : createClaimFind(p, u, ids)
  \/ createClaimPosts(p)
  \/ createClaimCalcPosts(p)
  \/ createClaimCalcSettings(p)
  \/ createClaimSave(p)

LifecycleStep(p) ==
  \/ \E c \in ClaimIds, m \in Amounts, r \in Reasons, u \in Reviewers :
       applyDeduction(p, c, m, r, u)
  \/ \E c \in ClaimIds, b \in BOOLEAN, u \in Users : respondToDeduction(p, c, b, u)
  \/ \E c \in ClaimIds, u \in Reviewers : accountApprove(p, c, u)
  \/ \E c \in ClaimIds, r \in Reasons, u \in Reviewers : accountReject(p, c, u, r)
  \/ \E c \in ClaimIds, u \in Admins : adminApprove(p, c, u)
  \/ lifecycleSave(p)

\* posts, rate updates and concurrent claim submissions
NextEnv ==
  \/ PostStep
  \/ \E p \in Procs : SettingsStep(p)
  \/ \E p \in Procs : CreateStep(p, Claimants, OwnPostRequests)

SpecEnv == Init /\ [][NextEnv]_vars

(* --------------- one call at a time, on a claim in any status ---------- *)
\* the earnings a stored claim may carry, in hundredths
EarningsRange == 0..MaxAmount

FreshClaims == {NewClaim(Args("u1", 0, <<"p1">>, 0, NULL, FALSE), e) : e \in EarningsRange}

DeductedClaims ==
  {applyDeductionDoc(d, m, r, u) :
     d \in {f \in FreshClaims : f.calculatedEarnings > 1},
     m \in {1}, r \in Reasons, u \in Reviewers}

AcceptedClaims == {respondToDeductionDoc(d, TRUE, d.userId) : d \in DeductedClaims}

RejectedClaims ==
  {respondToDeductionDoc(d, FALSE, d.userId) : d \in DeductedClaims}
    \cup {accountRejectDoc(d, u, r) : d \in FreshClaims, u \in Reviewers, r \in Reasons}

AccountApprovedClaims == {accountApproveDoc(d, u) : d \in FreshClaims, u \in Reviewers}

AdminApprovedClaims ==
  {adminApproveDoc(d, u) : d \in AcceptedClaims \cup AccountApprovedClaims, u \in Admins}

\* the schema admits status settled, which no service call assigns
SettledClaims ==
  {[d EXCEPT !.status = "settled",
             !.history = Append(@, Entry("settled", d.finalApprovedBy, NULL))] :
     d \in AdminApprovedClaims}

\* the schema admits isActive = false, which no service call assigns
AnyClaims ==
  LET docs == FreshClaims \cup DeductedClaims \cup AcceptedClaims \cup RejectedClaims
                \cup AccountApprovedClaims \cup AdminApprovedClaims \cup SettledClaims
  IN {[d EXCEPT !.isActive = b] : d \in docs, b \in BOOLEAN}

InitAny ==
  /\ posts = [id \in PostIds |-> NewPost(PostOwner[id])]
  /\ settings = <<[ratePerLike |-> 2, ratePer100Views |-> 50, isActive |-> TRUE]>>
  /\ claims \in {<<d>> : d \in AnyClaims}
  /\ proc = [p \in Procs |-> Idle]
  /\ last = Outcome("none", NoArgs, "none", {}, {})
  /\ now = 0

Solo(p) == \A q \in Procs \ {p} : proc[q] = Idle

NextSeq ==
  \/ \E p \in Procs : Solo(p) /\ CreateStep(p, Claimants \cup {NULL}, PostIdSeqs)
  \/ \E p \in Procs : Solo(p) /\ LifecycleStep(p)

SpecSeq == InitAny /\ [][NextSeq]_vars

\* a stored claim whose history holds an entry from before the schema
\* restricted the actions: the entries the filter of the lifecycle methods
\* removes
LegacyEntry == Entry("rejected", "acc", NULL)

InsertAt(h, i, e) == SubSeq(h, 1, i) \o <<e>> \o SubSeq(h, i + 1, Len(h))

LegacyClaims ==
  UNION {{[d EXCEPT !.history = InsertAt(d.history, i, LegacyEntry)] :
            i \in 0..Len(d.history)} : d \in AnyClaims}

InitLegacy ==
  /\ posts = [id \in PostIds |-> NewPost(PostOwner[id])]
  /\ settings = <<[ratePerLike |-> 2, ratePer100Views |-> 50, isActive |-> TRUE]>>
  /\ claims \in {<<d>> : d \in LegacyClaims}
  /\ proc = [p \in Procs |-> Idle]
  /\ last = Outcome("none", NoArgs, "none", {}, {})
  /\ now = 0

NextLegacy == \E p \in Procs : Solo(p) /\ LifecycleStep(p)

SpecLegacy == InitLegacy /\ [][NextLegacy]_vars

\* a world in which posts have been engaged with and the admin has set
\* the rates, before the first claim
InitWorld ==
  /\ posts \in [PostIds -> [userId : Users, likeCount : 0..MaxCount, viewCount : 0..MaxCount]]
  /\ \A id \in PostIds : posts[id].userId = PostOwner[id]
  /\ \A id \in PostIds \ EngagedPosts : posts[id] = NewPost(PostOwner[id])
  /\ settings \in {<<[ratePerLike |-> r[1], ratePer100Views |-> r[2], isActive |-> TRUE]>> :
                     r \in RatePairs}
  /\ claims = <<>>
  /\ proc = [p \in Procs |-> Idle]
  /\ last = Outcome("none", NoArgs, "none", {}, {})
  /\ now = 0

\* submissions one at a time, concurrent lifecycle calls
NoOtherCreate(p) == \A q \in Procs \ {p} : proc[q].op # "createClaim"

Next ==
  \/ \E p \in Procs : NoOtherCreate(p) /\ CreateStep(p, Claimants, OwnPostRequests)
  \/ \E p \in Procs : LifecycleStep(p)

Spec == InitWorld /\ [][Next]_vars

\* submissions and pre-checks of every kind of request, one call at a time
NextCheck ==
  \/ \E p \in Procs : Solo(p) /\ CreateStep(p, Claimants, PostIdSeqs)
  \/ \E p \in Procs, u \in Claimants, ids \in PostIdSeqs :
       Solo(p) /\ checkPostsAlreadyClaimed(p, u, ids)

SpecCheck == InitWorld /\ [][NextCheck]_vars

\* from the empty stores: engagement, rate updates and submissions of every
\* kind of request and lifecycle calls, one call at a time
AllIdle == \A p \in Procs : proc[p] = Idle

NextAll ==
  \/ AllIdle /\ PostStep
  \/ \E p \in Procs : Solo(p) /\ SettingsStep(p)
  \/ \E p \in Procs : Solo(p) /\ CreateStep(p, Claimants \cup {NULL}, PostIdSeqs)
  \/ \E p \in Procs : Solo(p) /\ LifecycleStep(p)

SpecAll == Init /\ [][NextAll]_vars

\* concurrent submissions of every kind of request over stored posts
NextSubmit == \E p \in Procs : CreateStep(p, Claimants \cup {NULL}, PostIdSeqs)

SpecSubmit == InitWorld /\ [][NextSubmit]_vars

\* the default rates of the schema and posts of one owner with the counters
\* of the documented example, small counters and none
DefaultRates == <<1, 50>>

CounterCases == {<<0, 0>>, <<3, 1>>, <<10, 500>>}

EarningRequests == {<<"p1">>, <<"p3">>, <<"p1", "p3">>}

InitEarnings ==
  /\ posts \in {[p1 |-> [userId |-> "u1", likeCount |-> c[1], viewCount |-> c[2]],
                p2 |-> NewPost("u2"),
                p3 |-> [userId |-> "u1", likeCount |-> d[1], viewCount |-> d[2]]] :
                  c \in CounterCases, d \in CounterCases}
  /\ settings = <<[ratePerLike |-> DefaultRates[1], ratePer100Views |-> DefaultRates[2],
                   isActive |-> TRUE]>>
  /\ claims = <<>>
  /\ proc = [p \in Procs |-> Idle]
  /\ last = Outcome("none", NoArgs, "none", {}, {})
  /\ now = 0

NextEarnings == \E p \in Procs : CreateStep(p, Claimants, EarningRequests)

SpecEarnings == InitEarnings /\ [][NextEarnings]_vars

\* one stored claim, pending and unlocked, and the requests of the lock
\* protocol: one call at a time, or any interleaving of two calls
InitLock ==
  /\ posts = [id \in PostIds |-> NewPost(PostOwner[id])]
  /\ settings = <<[ratePerLike |-> 2, ratePer100Views |-> 50, isActive |-> TRUE]>>
  /\ claims \in {<<d>> : d \in {f \in FreshClaims : f.calculatedEarnings = MaxAmount}}
  /\ proc = [p \in Procs |-> Idle]
  /\ last = Outcome("none", NoArgs, "none", {}, {})
  /\ now = 0

LockStep(p) ==
  \/ \E c \in ClaimIds, u \in LockActors : lockClaim(p, c, u)
  \/ lockClaimSave(p)
  \/ \E c \in ClaimIds, u \in LockActors : unlockClaim(p, c, u)
  \/ unlockClaimSave(p)

NextLockSeq ==
  \/ Tick
  \/ \E p \in Procs : Solo(p) /\ LockStep(p)

SpecLockSeq == InitLock /\ [][NextLockSeq]_vars

NextLock ==
  \/ Tick
  \/ \E p \in Procs : LockStep(p)

SpecLock == InitLock /\ [][NextLock]_vars

\* one call at a time over a notification channel that may throw
NextPublish ==
  \/ \E p \in Procs : Solo(p) /\ CreateStep(p, Claimants, OwnPostRequests)
  \/ \E p \in Procs : Solo(p) /\ createClaimEmitThrows(p)
  \/ \E p \in Procs : Solo(p) /\ LifecycleStep(p)
  \/ \E p \in Procs : Solo(p) /\ lifecycleEmitThrows(p)

SpecPublish == InitWorld /\ [][NextPublish]_vars

\* every kind of request, one at a time: engagement with posts, rate
\* updates, submissions, lifecycle calls and lock requests
NextFrame ==
  \/ PostStep /\ \A p \in Procs : proc[p] = Idle
  \/ \E p \in Procs : Solo(p) /\ SettingsStep(p)
  \/ \E p \in Procs : Solo(p) /\ CreateStep(p, Claimants, OwnPostRequests)
  \/ \E p \in Procs : Solo(p) /\ LifecycleStep(p)
  \/ \E p \in Procs : Solo(p) /\ LockStep(p)

SpecFrame == InitWorld /\ [][NextFrame]_vars

\* the claim routes called by any actor
RoutedStep(p) ==
  \/ \E op \in RoutedOps, actor \in Actors : Forbidden(p, op, actor)
  \/ \E u \in Actors, ids \in OwnPostRequests :
       Authorized("createClaim", u) /\ createClaimFind(p, u, ids)
  \/ createClaimPosts(p)
  \/ createClaimCalcPosts(p)
  \/ createClaimCalcSettings(p)
  \/ createClaimSave(p)
  \/ \E c \in ClaimIds, m \in Amounts, r \in Reasons, u \in Actors :
       Authorized("applyDeduction", u) /\ applyDeduction(p, c, m, r, u)
  \/ \E c \in ClaimIds, b \in BOOLEAN, u \in Actors :
       Authorized("respondToDeduction", u) /\ respondToDeduction(p, c, b, u)
  \/ \E c \in ClaimIds, u \in Actors :
       Authorized("accountApprove", u) /\ accountApprove(p, c, u)
  \/ \E c \in ClaimIds, r \in Reasons, u \in Actors :
       Authorized("accountReject", u) /\ accountReject(p, c, u, r)
  \/ \E c \in ClaimIds, u \in Actors :
       Authorized("adminApprove", u) /\ adminApprove(p, c, u)
  \/ lifecycleSave(p)

\* the claim routes, one request at a time, called by actors of every role
NextRoles == \E p \in Procs : Solo(p) /\ RoutedStep(p)

SpecRoles == InitWorld /\ [][NextRoles]_vars

\* a lock request interleaved with a call of the claim lifecycle
LockHandlers == {"q1"}

LifecycleHandlers == {"q2"}

\* two account reviewers at work on one claim: concurrent lifecycle calls,
\* and lock requests between them
ReviewTeam == {"acc", "acc2"}

ReviewStep(p) ==
  \/ \E c \in ClaimIds, r \in Reasons, u \in ReviewTeam :
       applyDeduction(p, c, MaxAmount - 1, r, u)
  \/ \E c \in ClaimIds, b \in BOOLEAN, u \in Claimants : respondToDeduction(p, c, b, u)
  \/ \E c \in ClaimIds, u \in ReviewTeam : accountApprove(p, c, u)
  \/ \E c \in ClaimIds, r \in Reasons, u \in ReviewTeam : accountReject(p, c, u, r)
  \/ \E c \in ClaimIds, u \in Admins : adminApprove(p, c, u)
  \/ lifecycleSave(p)

NextReview ==
  \/ \E p \in Procs : ReviewStep(p)
  \/ \E p \in LockHandlers : Solo(p) /\ LockStep(p)

SpecReview == InitLock /\ [][NextReview]_vars

NextLockLife ==
  \/ \E p \in LockHandlers : LockStep(p)
  \/ \E p \in LifecycleHandlers : LifecycleStep(p)

SpecLockLife == InitLock /\ [][NextLockLife]_vars

(* ============================== properties ============================= *)
\* the call of process p ended with the error kind: nothing was written,
\* nothing was published and no write is pending
Rejected(p, kind) ==
  /\ last'.result = kind
  /\ last'.events = {}
  /\ claims' = claims
  /\ proc'[p] = Idle

\* the call of process p passed its checks and its write is pending
Accepted(p, op) ==
  /\ proc'[p].op = op
  /\ proc'[p].pc = "save"
  /\ claims' = claims
  /\ last' = last

TableSources(op) ==
  CASE op = "applyDeduction" -> {"pending"}
    [] op = "respondToDeduction" -> {"deducted"}
    [] op = "accountApprove" -> {"pending", "user_rejected"}
    [] op = "accountReject" -> {"pending", "user_rejected"}
    [] op = "adminApprove" -> {"account_approved", "user_accepted"}

TableTarget(op, accepted) ==
  CASE op = "applyDeduction" -> "deducted"
    [] op = "respondToDeduction" -> IF accepted THEN "user_accepted" ELSE "user_rejected"
    [] op = "accountApprove" -> "account_approved"
    [] op = "accountReject" -> "user_rejected"
    [] op = "adminApprove" -> "admin_approved"

TableChecked(p, op, c, inputsValid) ==
  IF claims[c].status \notin TableSources(op)
  THEN Rejected(p, "InvalidStateTransition")
  ELSE inputsValid => Accepted(p, op)

C1_Step ==
  \A p \in Procs, c \in DOMAIN claims :
    /\ \A m \in Amounts, r \in Reasons, u \in Reviewers :
         applyDeduction(p, c, m, r, u) =>
           TableChecked(p, "applyDeduction", c,
                        0 < m /\ m < claims[c].calculatedEarnings)
    /\ \A b \in BOOLEAN, u \in Users :
         respondToDeduction(p, c, b, u) =>
           TableChecked(p, "respondToDeduction", c, u = claims[c].userId)
    /\ \A u \in Reviewers :
         accountApprove(p, c, u) => TableChecked(p, "accountApprove", c, TRUE)
    /\ \A u \in Reviewers, r \in Reasons :
         accountReject(p, c, u, r) => TableChecked(p, "accountReject", c, TRUE)
    /\ \A u \in Admins :
         adminApprove(p, c, u) => TableChecked(p, "adminApprove", c, TRUE)
    /\ (lifecycleSave(p) /\ proc[p].a.claimId = c) =>
         /\ claims[c].status \in TableSources(proc[p].op)
         /\ claims'[c].status = TableTarget(proc[p].op, proc[p].a.accepted)
         /\ last'.result = "ok"

\* C1: with one call at a time, each lifecycle operation is accepted and
\* moves the claim to its target status exactly when the claim is in one of
\* the operation's source statuses (applyDeduction: pending -> deducted;
\* respondToDeduction: deducted -> user_accepted or user_rejected;
\* accountApprove: pending or user_rejected -> account_approved;
\* accountReject: pending or user_rejected -> user_rejected; adminApprove:
\* account_approved or user_accepted -> admin_approved); from every other
\* status, settled included, it fails with InvalidStateTransition and the
\* claim is left as it was
C1_TransitionTable == [][C1_Step]_vars

\* the reviewer approved a claim that had been rejected before
C1_Witness ==
  /\ last.op = "accountApprove"
  /\ last.result = "ok"
  /\ last.a.claimId \in DOMAIN claims
  /\ claims[last.a.claimId].status = "account_approved"
  /\ \E i \in DOMAIN claims[last.a.claimId].history :
       claims[last.a.claimId].history[i].action = "user_rejected"

Overlaps(ids, c) ==
  \E i \in DOMAIN ids, j \in DOMAIN claims[c].postIds : ids[i] = claims[c].postIds[j]

Repeats(ids) == \E i, j \in DOMAIN ids : i # j /\ ids[i] = ids[j]

C2_Step ==
  \A p \in Procs, u \in Claimants, ids \in PostIdSeqs :
    (/\ createClaimFind(p, u, ids)
     /\ ids # <<>>
     /\ ~Repeats(ids)
     /\ \E c \in DOMAIN claims : Overlaps(ids, c))
      => /\ Rejected(p, "DuplicateClaim")
         /\ last'.op = "createClaim"

\* C2: with one call at a time, createClaim for posts of which one is already
\* in an existing claim, whatever that claim's status and whether it is
\* active or not, fails with DuplicateClaim and persists nothing
C2_DuplicateAgainstAnyClaim == [][C2_Step]_vars

C2_Witness ==
  /\ last.op = "createClaim"
  /\ last.result = "DuplicateClaim"
  /\ \E c \in DOMAIN claims :
       /\ Overlaps(last.a.postIds, c)
       /\ claims[c].status = "settled"
       /\ ~claims[c].isActive

\* C3: no post id is in the postIds of two different persisted claims, also
\* when the reads and writes of concurrent createClaim calls interleave
C3_NoPostInTwoClaims ==
  \A c, d \in DOMAIN claims : c # d => ~Overlaps(claims[c].postIds, d)

C4_Step ==
  \A p \in Procs, c \in DOMAIN claims :
    /\ \A m \in Amounts, r \in Reasons, u \in Reviewers :
         (applyDeduction(p, c, m, r, u) /\ claims[c].status = "pending") =>
           IF m <= 0 \/ m >= claims[c].calculatedEarnings
           THEN Rejected(p, "InvalidDeduction")
           ELSE Accepted(p, "applyDeduction")
    /\ (lifecycleSave(p) /\ proc[p].op = "applyDeduction" /\ proc[p].a.claimId = c) =>
         /\ last'.result = "ok"
         /\ claims'[c].status = "deducted"
         /\ claims'[c].deductionAmount = proc[p].a.amount
         /\ claims'[c].deductionReason = proc[p].a.reason

\* C4: with one call at a time, applyDeduction on a pending claim fails with
\* InvalidDeduction when the amount is <= 0 or >= calculatedEarnings, and
\* otherwise succeeds, leaving status deducted, deductionAmount the amount
\* and deductionReason the reason
C4_DeductionBounds == [][C4_Step]_vars

\* a deduction equal to the positive earnings of a pending claim was refused
C4_Witness ==
  /\ last.op = "applyDeduction"
  /\ last.result = "InvalidDeduction"
  /\ last.a.claimId \in DOMAIN claims
  /\ claims[last.a.claimId].status = "pending"
  /\ last.a.amount = claims[last.a.claimId].calculatedEarnings
  /\ last.a.amount > 0

\* C5 as stated: every persisted claim has deductionAmount < calculatedEarnings
C5_DeductionBelowEarnings ==
  \A c \in DOMAIN claims : claims[c].deductionAmount < claims[c].calculatedEarnings

\* C5: every persisted claim has 0 <= deductionAmount, and deductionAmount <
\* calculatedEarnings unless calculatedEarnings is 0, in which case
\* deductionAmount is 0 as well
C5_DeductionBelowPositiveEarnings ==
  \A c \in DOMAIN claims :
    /\ 0 <= claims[c].deductionAmount
    /\ IF claims[c].calculatedEarnings = 0
       THEN claims[c].deductionAmount = 0
       ELSE claims[c].deductionAmount < claims[c].calculatedEarnings

\* a claim created by createClaim carries an applied deduction
C5_Witness ==
  \E c \in DOMAIN claims :
    /\ claims[c].status = "deducted"
    /\ claims[c].deductionAmount > 0
    /\ claims[c].deductionAmount + 1 = claims[c].calculatedEarnings

C6_Step ==
  \A p \in Procs, c \in DOMAIN claims :
    /\ (respondToDeduction(p, c, FALSE, claims[c].userId) /\ claims[c].status = "deducted")
         => Accepted(p, "respondToDeduction")
    /\ (/\ lifecycleSave(p)
        /\ proc[p].op = "respondToDeduction"
        /\ proc[p].a.claimId = c
        /\ ~proc[p].a.accepted)
         => /\ last'.result = "ok"
            /\ claims'[c].status = "user_rejected"
            /\ claims'[c].deductionAmount = 0
            /\ claims'[c].deductionReason = ""

\* C6: with one call at a time, respondToDeduction with accepted = false by
\* the owner of a deducted claim succeeds and leaves status user_rejected,
\* deductionAmount 0 and an empty deductionReason
C6_RejectionResetsDeduction == [][C6_Step]_vars

C6_Witness ==
  /\ last.op = "respondToDeduction"
  /\ last.result = "ok"
  /\ ~last.a.accepted
  /\ last.a.claimId \in DOMAIN claims
  /\ claims[last.a.claimId].deductionAmount = 0
  /\ claims[last.a.claimId].deductionReason = ""
  /\ \E i \in DOMAIN claims[last.a.claimId].history :
       claims[last.a.claimId].history[i].action = "deduction_applied"

C7_Step ==
  \A p \in Procs, c \in DOMAIN claims, b \in BOOLEAN, u \in Users :
    (/\ respondToDeduction(p, c, b, u)
     /\ claims[c].status = "deducted"
     /\ u # claims[c].userId)
      => /\ Rejected(p, "Unauthorized")
         /\ last'.op = "respondToDeduction"

\* C7: respondToDeduction on a deducted claim by a caller who is not the
\* claim's owner fails with Unauthorized for either value of accepted, and
\* the claim's status, deduction and history stay as they were
C7_OnlyOwnerResponds == [][C7_Step]_vars

C7_Witness ==
  /\ last.op = "respondToDeduction"
  /\ last.result = "Unauthorized"
  /\ last.a.accepted
  /\ last.a.claimId \in DOMAIN claims
  /\ last.a.userId # claims[last.a.claimId].userId
  /\ claims[last.a.claimId].status = "deducted"
  /\ claims[last.a.claimId].deductionAmount > 0

\* C8: every post id of every persisted claim is the id of an existing Post
\* whose owner is the claim's owner
C8_PostsExistAndOwned ==
  \A c \in DOMAIN claims : \A i \in DOMAIN claims[c].postIds :
    /\ claims[c].postIds[i] \in DOMAIN posts
    /\ posts[claims[c].postIds[i]].userId = claims[c].userId

C9_Step ==
  /\ \A p \in Procs, u \in Claimants, ids \in PostIdSeqs :
       (createClaimFind(p, u, ids) /\ (ids = <<>> \/ Repeats(ids)))
         => /\ Rejected(p, "InvalidInput")
            /\ last'.op = "createClaim"
  /\ \A c \in DOMAIN claims' :
       /\ claims'[c].postIds # <<>>
       /\ ~Repeats(claims'[c].postIds)

\* C9: createClaim fails with InvalidInput when postIds is empty or holds a
\* repeated id, and every persisted claim has a non-empty postIds without
\* repetition
C9_PostIdsValidated == [][C9_Step]_vars

C9_Witness ==
  /\ last.op = "createClaim"
  /\ last.result = "InvalidInput"
  /\ last.a.userId # NULL
  /\ Repeats(last.a.postIds)

C10_Step ==
  \A p \in Procs :
    (createClaimCalcSettings(p) /\ \A i \in DOMAIN settings : ~settings[i].isActive)
      => /\ Rejected(p, "ConfigurationMissing")
         /\ last'.op = "createClaim"
         /\ last'.a = proc[p].a

\* C10: when no RateConfiguration is active, createClaim for valid, unclaimed
\* posts of the caller fails with ConfigurationMissing, persists no claim
\* and publishes no notification
C10_ConfigurationMissing == [][C10_Step]_vars

\* the call was refused while an administrator's update had deactivated the
\* previous record and not yet stored the next one
C10_Witness ==
  /\ last.op = "createClaim"
  /\ last.result = "ConfigurationMissing"
  /\ last.a.postIds = <<"p1">>
  /\ claims = <<>>
  /\ settings # <<>>
  /\ \A i \in DOMAIN settings : ~settings[i].isActive

C11_Step ==
  \A p \in Procs :
    createClaimSave(p) =>
      /\ last'.result = "ok"
      /\ last'.a.claimId = Len(claims')
      /\ Len(claims') = Len(claims) + 1
      /\ LET c == claims'[Len(claims')] IN
           /\ c.status = "pending"
           /\ Len(c.history) = 1
           /\ c.history[1].action = "submitted"
           /\ c.history[1].by = proc[p].a.userId
           /\ c.deductionAmount = 0
           /\ c.lockedBy = NULL
           /\ c.reviewedBy = NULL
           /\ c.finalApprovedBy = NULL

\* C11: the claim that a successful createClaim persists has status pending,
\* a history of exactly one entry (action submitted, by the submitting
\* actor), deductionAmount 0, no lock holder, no reviewedBy and no
\* finalApprovedBy
C11_FreshClaimShape == [][C11_Step]_vars

C11_Witness ==
  /\ last.op = "createClaim"
  /\ last.result = "ok"
  /\ last.a.claimId \in DOMAIN claims
  /\ claims[last.a.claimId].status = "pending"
  /\ claims[last.a.claimId].history =
       <<[action |-> "submitted", by |-> last.a.userId, note |-> NULL]>>

\* likeCount * ratePerLike + (viewCount / 100) * ratePer100Views summed over
\* the posts, in ten-thousandths (rates in hundredths)
RECURSIVE DecimalTotal(_, _)
DecimalTotal(ids, s) ==
  IF ids = <<>> THEN 0
  ELSE posts[Head(ids)].likeCount * s.ratePerLike * 100
         + posts[Head(ids)].viewCount * s.ratePer100Views
         + DecimalTotal(Tail(ids), s)

\* a number of ten-thousandths rounded half-up to hundredths
HalfUp2(t) == (t + 50) \div 100

\* C12: with posts and rates that do not change, the calculatedEarnings of
\* every claim stored by createClaim is the sum over its posts of
\* likeCount * ratePerLike + (viewCount / 100) * ratePer100Views, rounded
\* once, half-up, to 2 decimal places
C12_EarningsHalfUp ==
  \A c \in DOMAIN claims :
    claims[c].calculatedEarnings =
      HalfUp2(DecimalTotal(claims[c].postIds, settings[findOneActive]))

\* claimSchema.virtual('finalAmount')
finalAmount(claim) == claim.calculatedEarnings - claim.deductionAmount

HistoryActions(claim) == [i \in DOMAIN claim.history |-> claim.history[i].action]

AcceptedPath == <<"submitted", "deduction_applied", "user_accepted", "admin_approved">>

IsPrefix(h, path) == Len(h) <= Len(path) /\ h = SubSeq(path, 1, Len(h))

PathStatus == <<"pending", "deducted", "user_accepted", "admin_approved">>

C13_Step ==
  /\ \A p \in Procs :
       (lifecycleSave(p) /\ proc[p].op \in {"applyDeduction", "respondToDeduction", "adminApprove"}) =>
         LET c == proc[p].a.claimId IN
           /\ claims'[c].calculatedEarnings = claims[c].calculatedEarnings
           /\ proc[p].op = "applyDeduction" =>
                claims'[c].deductionAmount = proc[p].a.amount
           /\ (proc[p].op = "respondToDeduction" /\ proc[p].a.accepted) =>
                /\ claims'[c].status = "user_accepted"
                /\ claims'[c].deductionAmount = claims[c].deductionAmount
           /\ proc[p].op = "adminApprove" =>
                /\ claims'[c].status = "admin_approved"
                /\ claims'[c].deductionAmount = claims[c].deductionAmount
                /\ finalAmount(claims'[c]) =
                     claims[c].calculatedEarnings - claims[c].deductionAmount
  /\ \A c \in DOMAIN claims' :
       IsPrefix(HistoryActions(claims'[c]), AcceptedPath) =>
         /\ claims'[c].status = PathStatus[Len(claims'[c].history)]
         /\ Len(claims'[c].history) >= 2 =>
              /\ 0 < claims'[c].deductionAmount
              /\ finalAmount(claims'[c]) < claims'[c].calculatedEarnings

\* C13: along createClaim, applyDeduction(a), respondToDeduction(accepted
\* = true) by the owner, adminApprove the claim is pending, deducted,
\* user_accepted and admin_approved in that order; the acceptance and the
\* final approval leave deductionAmount and calculatedEarnings as they
\* were, so that the final amount at admin_approved is the original
\* earnings minus a
C13_AcceptedPathKeepsAmounts == [][C13_Step]_vars

C13_Witness ==
  \E c \in DOMAIN claims :
    /\ HistoryActions(claims[c]) = AcceptedPath
    /\ claims[c].status = "admin_approved"
    /\ claims[c].calculatedEarnings = 3
    /\ claims[c].deductionAmount = 1
    /\ finalAmount(claims[c]) = 2

\* the step is the call of a lifecycle operation on claim c by process p
LifecycleCall(p, c) ==
  \/ \E m \in Amounts, r \in Reasons, u \in Reviewers : applyDeduction(p, c, m, r, u)
  \/ \E b \in BOOLEAN, u \in Users : respondToDeduction(p, c, b, u)
  \/ \E u \in Reviewers : accountApprove(p, c, u)
  \/ \E u \in Reviewers, r \in Reasons : accountReject(p, c, u, r)
  \/ \E u \in Admins : adminApprove(p, c, u)

C14_Step ==
  \A p \in Procs, c \in DOMAIN claims :
    ~claims[c].isActive =>
      /\ LifecycleCall(p, c) =>
           /\ proc'[p] = Idle
           /\ last'.result \notin {"ok", "none"}
           /\ claims' = claims
      /\ (lifecycleSave(p) /\ proc[p].a.claimId = c) => claims' = claims

LockPending(p, u, t) ==
  /\ proc'[p].pc = "save"
  /\ proc'[p].op = "lockClaim"
  /\ proc'[p].local.lockedBy = u
  /\ proc'[p].local.lockTimestamp = t
  /\ claims' = claims

C15_Step ==
  \A p \in Procs :
    /\ \A c \in DOMAIN claims, u \in LockActors :
         lockClaim(p, c, u) =>
           IF claims[c].lockedBy = NULL THEN LockPending(p, u, now)
           ELSE IF claims[c].lockedBy = u THEN TRUE
           ELSE IF now - claims[c].lockTimestamp < LockTimeout
           THEN /\ last'.op = "lockClaim"
                /\ last'.result = "false"
                /\ claims' = claims
                /\ proc'[p] = Idle
           ELSE LockPending(p, u, now)
    /\ (lockClaimSave(p) /\ proc[p].loaded.lockedBy # proc[p].a.userId) =>
         /\ last'.op = "lockClaim"
         /\ last'.result = "true"
         /\ claims'[proc[p].a.claimId].lockedBy = proc[p].a.userId
         /\ claims'[proc[p].a.claimId].lockTimestamp = now

\* C15: a lock request of actor B on a claim locked by another actor is
\* answered false and changes nothing while the lock is younger than 30
\* minutes; once the lock is 30 minutes old, and on an unlocked claim, it is
\* answered true and stores lockedBy = B with the current time
C15_LockRespectsYoungLocks == [][C15_Step]_vars

\* a lock of another actor that is 30 minutes old is being taken over
C15_Witness ==
  \E p \in Procs :
    /\ proc[p].op = "lockClaim"
    /\ proc[p].loaded.lockedBy \notin {NULL, proc[p].a.userId}
    /\ now - proc[p].loaded.lockTimestamp >= LockTimeout
    /\ proc[p].local.lockedBy = proc[p].a.userId
    /\ proc[p].local.lockTimestamp = now

C16_Step ==
  \A p \in Procs :
    /\ \A c \in DOMAIN claims, u \in LockActors :
         unlockClaim(p, c, u) =>
           IF claims[c].lockedBy = u
           THEN /\ proc'[p].pc = "save"
                /\ proc'[p].op = "unlockClaim"
                /\ claims' = claims
           ELSE /\ last'.op = "unlockClaim"
                /\ last'.result = "ok"
                /\ claims' = claims
                /\ proc'[p] = Idle
    /\ unlockClaimSave(p) =>
         /\ claims[proc[p].a.claimId].lockedBy = proc[p].a.userId
         /\ claims'[proc[p].a.claimId].lockedBy = NULL
         /\ claims'[proc[p].a.claimId].lockTimestamp = -1
         /\ last'.op = "unlockClaim"
         /\ last'.result = "ok"

\* C16: unlock clears lockedBy and lockTimestamp exactly when the caller
\* holds the lock; on an unlocked claim and on a claim locked by another
\* actor, whatever the age of that lock, it returns normally and changes
\* nothing
C16_UnlockOnlyByHolder == [][C16_Step]_vars

\* an actor asked to unlock a claim held by another actor for 30 minutes
\* or more, and the lock is still there
C16_Witness ==
  /\ last.op = "unlockClaim"
  /\ last.result = "ok"
  /\ last.a.claimId \in DOMAIN claims
  /\ claims[last.a.claimId].lockedBy \notin {NULL, last.a.userId}
  /\ now - claims[last.a.claimId].lockTimestamp >= LockTimeout


\* C17: in every reachable state the lock holder and the lock time of a
\* claim are both set or both unset
C17_LockFieldsTogether ==
  \A c \in DOMAIN claims :
    (claims[c].lockedBy = NULL) <=> (claims[c].lockTimestamp = -1)


C19_Step ==
  \A p \in Procs :
    (/\ lockClaimSave(p)
     /\ proc[p].loaded.lockedBy = NULL
     /\ last.op = "lockClaim"
     /\ last.result = "true"
     /\ last.a.claimId = proc[p].a.claimId
     /\ last.a.userId # proc[p].a.userId) =>
      /\ last'.result = "false"
      /\ \E e \in last'.events :
           e.event = "lock_failed" /\ e.to = {callerSocket(proc[p].a.userId)}

\* C19: when two different actors ask for the lock of the same unlocked
\* claim at the same time, at most one of the calls returns true: a call
\* that read the claim unlocked and ends right after the call of another
\* actor was granted the lock returns false, and its caller gets lock_failed
C19_OneLockWinner == [][C19_Step]_vars


LockFields(doc) == <<doc.lockedBy, doc.lockTimestamp>>

LifecycleFields(doc) ==
  <<doc.status, doc.deductionAmount, doc.deductionReason, doc.reviewedBy,
    doc.finalApprovedBy, doc.history>>

\* what a lifecycle call on a claim decides, from the status of the claim
\* and the validity of its inputs alone
Decision(op, claim, inputsValid) ==
  IF claim.status \notin TableSources(op) THEN "InvalidStateTransition"
  ELSE IF inputsValid THEN "accepted"
  ELSE "invalid"

\* what the call of process p did decide
Decided(p, op) ==
  IF proc'[p] # Idle
  THEN IF Accepted(p, op) /\ LockFields(proc'[p].local) = LockFields(proc'[p].loaded)
       THEN "accepted" ELSE "other"
  ELSE IF last'.op # op \/ claims' # claims THEN "other"
  ELSE IF last'.result = "InvalidStateTransition" THEN "InvalidStateTransition"
  ELSE IF last'.result \in {"InvalidDeduction", "Unauthorized"} THEN "invalid"
  ELSE "other"

C18_Step ==
  \A p \in Procs, c \in DOMAIN claims :
    /\ \A m \in Amounts, r \in Reasons, u \in Reviewers :
         applyDeduction(p, c, m, r, u) =>
           Decided(p, "applyDeduction") =
             Decision("applyDeduction", claims[c], 0 < m /\ m < claims[c].calculatedEarnings)
    /\ \A b \in BOOLEAN, u \in Users :
         respondToDeduction(p, c, b, u) =>
           Decided(p, "respondToDeduction") =
             Decision("respondToDeduction", claims[c], u = claims[c].userId)
    /\ \A u \in Reviewers :
         accountApprove(p, c, u) =>
           Decided(p, "accountApprove") = Decision("accountApprove", claims[c], TRUE)
    /\ \A u \in Reviewers, r \in Reasons :
         accountReject(p, c, u, r) =>
           Decided(p, "accountReject") = Decision("accountReject", claims[c], TRUE)
    /\ \A u \in Admins :
         adminApprove(p, c, u) =>
           Decided(p, "adminApprove") = Decision("adminApprove", claims[c], TRUE)
    /\ (lifecycleSave(p) /\ proc[p].a.claimId = c) =>
         /\ last'.result = "ok"
         /\ LockFields(claims'[c]) = LockFields(claims[c])
    /\ (\/ \E u \in LockActors : lockClaim(p, c, u) \/ unlockClaim(p, c, u)
        \/ lockClaimSave(p)
        \/ unlockClaimSave(p)) =>
         LifecycleFields(claims'[c]) = LifecycleFields(claims[c])

C20_Step ==
  \A p \in Procs :
    /\ createClaimEmitThrows(p) =>
         /\ last'.result = "ok"
         /\ claims' = Append(claims, NewClaim(proc[p].a, proc[p].earnings))
    /\ lifecycleEmitThrows(p) =>
         /\ last'.result = "ok"
         /\ claims'[proc[p].a.claimId] =
              SaveDoc(claims[proc[p].a.claimId], proc[p].loaded, proc[p].local)

\* C20: when the notification of createClaim, applyDeduction,
\* respondToDeduction, accountApprove, accountReject or adminApprove cannot
\* be published after the claim was saved, the caller still gets the saved
\* claim as a success and the saved state stays
C20_PublishFailureIsDiscarded == [][C20_Step]_vars


DeductionEntries(claim) ==
  Cardinality({i \in DOMAIN claim.history : claim.history[i].action = "deduction_applied"})

C21_Step ==
  \A p \in Procs :
    (/\ lifecycleSave(p)
     /\ proc[p].op = "applyDeduction"
     /\ proc[p].loaded.status = "pending"
     /\ claims[proc[p].a.claimId].status = "deducted") =>
      LET c == proc[p].a.claimId IN
      /\ last'.op = "applyDeduction"
      /\ last'.result = "ok"
      /\ claims'[c].status = "deducted"
      /\ claims'[c].deductionAmount = proc[p].a.amount
      /\ claims'[c].deductionReason = proc[p].a.reason
      /\ claims'[c].reviewedBy = proc[p].a.userId
      /\ claims'[c].history =
           Append(claims[c].history, proc[p].local.history[Len(proc[p].local.history)])
      /\ claims'[c].history[Len(claims'[c].history)].action = "deduction_applied"
      /\ claims'[c].history[Len(claims'[c].history)].by = proc[p].a.userId
      /\ DeductionEntries(claims'[c]) = DeductionEntries(claims[c]) + 1
      /\ DeductionEntries(claims[c]) >= 1

\* C21: two applyDeduction calls on the same pending claim can both read
\* status pending and both pass validation; the call that saves second, on a
\* claim the first has already made deducted, also succeeds: deductionAmount,
\* deductionReason and reviewedBy become those of this last writer and its
\* deduction_applied entry is added after the entry of the first
C21_LastDeductionWins == [][C21_Step]_vars

\* both calls have written: two deduction_applied entries follow submitted
\* and the stored amount is that of the call that returned last
C21_Witness ==
  /\ last.op = "applyDeduction"
  /\ last.result = "ok"
  /\ last.a.claimId \in DOMAIN claims
  /\ LET c == claims[last.a.claimId] IN
       /\ c.status = "deducted"
       /\ HistoryActions(c) = <<"submitted", "deduction_applied", "deduction_applied">>
       /\ c.deductionAmount = last.a.amount


\* C22: from the first stored rate configuration on, exactly one
\* AdminSettings record is active in every reachable state, the states
\* between the two writes of a rate update and those of two concurrent
\* updates included
C22_ExactlyOneActive ==
  settings # <<>> => Cardinality(ActiveSettings) = 1


C23_Step ==
  \A c \in DOMAIN claims :
    claims'[c].calculatedEarnings = claims[c].calculatedEarnings

\* C23: the calculatedEarnings of a stored claim never change: no lifecycle
\* operation, lock or unlock, rate update or later like or view of its posts
\* alters them
C23_EarningsFrozen == [][C23_Step]_vars


\* a claim has been through a lifecycle operation and is locked, and the
\* counters of its posts and the active rates now give other earnings than
\* the stored ones
C23_Witness ==
  /\ claims # <<>>
  /\ claims[1].status # "pending"
  /\ claims[1].lockedBy # NULL
  /\ ActiveSettings # {}
  /\ calculateEarnings([id \in Range(claims[1].postIds) |-> posts[id]],
                       settings[findOneActive]) # claims[1].calculatedEarnings


\* the role the claim names for each operation
NamedRoles(op) ==
  CASE op = "createClaim" -> {"user"}
    [] op = "respondToDeduction" -> {"user"}
    [] op \in {"applyDeduction", "accountApprove", "accountReject"} -> {"account"}
    [] op = "adminApprove" -> {"admin"}

C24_Step ==
  /\ \A p \in Procs :
       (proc[p] = Idle /\ proc'[p] # Idle) =>
         Role(proc'[p].a.userId) \in NamedRoles(proc'[p].op)
  /\ claims' # claims =>
       \E p \in Procs :
         /\ proc[p].pc = "save"
         /\ Role(proc[p].a.userId) \in NamedRoles(proc[p].op)
  /\ (last' # last /\ last'.op \in RoutedOps
        /\ Role(last'.a.userId) \notin NamedRoles(last'.op)) =>
       /\ last'.result = "Forbidden"
       /\ last'.events = {}
       /\ claims' = claims
       /\ proc' = proc

LifecycleOps ==
  {"applyDeduction", "respondToDeduction", "accountApprove", "accountReject",
   "adminApprove"}

\* process p calls again, with the same arguments, the lifecycle operation
\* that was the last call to finish and that succeeded
RepeatsLastCall(p) ==
  /\ last.op \in LifecycleOps
  /\ last.result = "ok"
  /\ last.a.claimId \in DOMAIN claims
  /\ LifecycleCall(p, last.a.claimId)
  /\ \/ proc'[p] # Idle /\ proc'[p].op = last.op /\ proc'[p].a = last.a
     \/ proc'[p] = Idle /\ last'.op = last.op /\ last'.a = last.a

\* the save of a repeated call adds a second entry like the first
SecondEntry(p) ==
  LET c == proc[p].a.claimId
      h == claims'[c].history
  IN /\ last'.result = "ok"
     /\ Len(h) = Len(claims[c].history) + 1
     /\ h[Len(h)].action = h[Len(h) - 1].action
     /\ h[Len(h)].by = h[Len(h) - 1].by

C25_StepOriginal ==
  \A p \in Procs :
    /\ RepeatsLastCall(p) => Accepted(p, last.op)
    /\ (lifecycleSave(p) /\ last.op = proc[p].op /\ last.a = proc[p].a /\ last.result = "ok") =>
         SecondEntry(p)

\* C25 as stated: each of applyDeduction, respondToDeduction,
\* accountApprove, accountReject and adminApprove, called a second time in
\* sequence with the same arguments on the same claim, succeeds again and
\* appends a second history entry
C25_EveryRepeatSucceeds == [][C25_StepOriginal]_vars

C25_Step ==
  \A p \in Procs :
    /\ RepeatsLastCall(p) =>
         IF last.op = "accountReject"
         THEN Accepted(p, "accountReject")
         ELSE Rejected(p, "InvalidStateTransition")
    /\ (lifecycleSave(p) /\ last.op = proc[p].op /\ last.a = proc[p].a /\ last.result = "ok") =>
         /\ proc[p].op = "accountReject"
         /\ SecondEntry(p)

\* C25, amended: of the five lifecycle operations only accountReject can be
\* called twice in sequence with the same arguments: both calls succeed and
\* two user_rejected history entries are appended; the second call of
\* applyDeduction, respondToDeduction, accountApprove or adminApprove fails
\* with InvalidStateTransition and appends nothing
C25_OnlyRejectRepeats == [][C25_Step]_vars

\* accountReject succeeded twice in a row
C25_Witness ==
  /\ last.op = "accountReject"
  /\ last.result = "ok"
  /\ last.a.claimId \in DOMAIN claims
  /\ LET h == claims[last.a.claimId].history IN
       /\ Len(h) >= 3
       /\ h[Len(h)].action = "user_rejected"
       /\ h[Len(h) - 1].action = "user_rejected"
       /\ h[Len(h)].by = last.a.userId
       /\ h[Len(h) - 1].by = last.a.userId
       /\ h[Len(h)].note = h[Len(h) - 1].note

\* what createClaim answers to the same request in the same state
FailsWithDuplicateClaim(userId, ids) ==
  /\ ~(userId = NULL \/ Len(ids) = 0 \/ HasDuplicates(ids))
  /\ existingClaimsWithSamePosts(ids) # {}

C26_Step ==
  \A p \in Procs, u \in Claimants, ids \in PostIdSeqs :
    (/\ checkPostsAlreadyClaimed(p, u, ids)
     /\ ids # <<>>
     /\ ~Repeats(ids))
      => /\ UNCHANGED <<posts, settings, claims, proc>>
         /\ (last'.result = "true") <=> FailsWithDuplicateClaim(u, ids)
         /\ {d[1].of : d \in last'.detail}
              = {id \in Range(ids) : \E c \in DOMAIN claims : id \in Range(claims[c].postIds)}
         /\ \A d \in last'.detail :
              \E c \in DOMAIN claims :
                d[1].of \in Range(claims[c].postIds) /\ d[2] = claims[c].status

\* C26: checkPostsAlreadyClaimed changes no state; for a non-empty request
\* without repeated ids it answers alreadyClaimed = true exactly when
\* createClaim with the same ids would fail with DuplicateClaim, and its
\* conflict list names exactly the requested ids that occur in an existing
\* claim, each with the status of that claim
C26_CheckAgreesWithCreate == [][C26_Step]_vars

MutatingOps ==
  {"createClaim", "applyDeduction", "respondToDeduction", "accountApprove",
   "accountReject", "adminApprove"}

FailureKinds ==
  {"NotFound", "InvalidStateTransition", "InvalidDeduction", "Unauthorized",
   "InvalidInput", "DuplicateClaim", "ForbiddenPost", "ConfigurationMissing"}

C27_Step ==
  (last'.op \in MutatingOps /\ last'.result \in FailureKinds)
    => /\ claims' = claims
       /\ last'.events = {}

\* C27: a step in which createClaim or a lifecycle operation fails with
\* NotFound, InvalidStateTransition, InvalidDeduction, Unauthorized,
\* InvalidInput, DuplicateClaim, ForbiddenPost or ConfigurationMissing
\* reports that kind to the caller, creates and modifies no claim and
\* publishes no notification
C27_FailureChangesNothing == [][C27_Step]_vars

C27_Witness ==
  /\ last.op = "respondToDeduction"
  /\ last.result = "Unauthorized"
  /\ last.events = {}
  /\ last.a.claimId \in DOMAIN claims
  /\ claims[last.a.claimId].status = "deducted"
  /\ claims[last.a.claimId].userId # last.a.userId

Vocabulary ==
  {"submitted", "deduction_applied", "user_accepted", "user_rejected",
   "account_approved", "admin_approved", "settled"}

InVocabulary(e) == e.action \in Vocabulary

\* the history action a successful call of op with arguments a records
ActionOf(op, a) ==
  CASE op = "applyDeduction" -> "deduction_applied"
    [] op = "respondToDeduction" -> IF a.accepted THEN "user_accepted" ELSE "user_rejected"
    [] op = "accountApprove" -> "account_approved"
    [] op = "accountReject" -> "user_rejected"
    [] op = "adminApprove" -> "admin_approved"

C28_Step ==
  \A p \in Procs :
    lifecycleSave(p) =>
      LET c == proc[p].a.claimId
          before == claims[c].history
          after == claims'[c].history
      IN /\ last'.result = "ok"
         /\ \A i \in DOMAIN after : after[i].action \in Vocabulary
         /\ Len(after) >= 1
         /\ SubSeq(after, 1, Len(after) - 1) = SelectSeq(before, InVocabulary)
         /\ after[Len(after)].action = ActionOf(proc[p].op, proc[p].a)
         /\ after[Len(after)].by = proc[p].a.userId

\* C28: after every successful applyDeduction, respondToDeduction,
\* accountApprove, accountReject or adminApprove every history entry of the
\* claim has an action of the vocabulary, the entries with such an action
\* that were there before are kept in their order, and exactly one entry,
\* with the action of this operation and by this actor, is added as the last
C28_HistoryInVocabulary == [][C28_Step]_vars

\* a deduction was applied to a claim whose stored history began with an
\* entry outside the vocabulary, and then answered
C28_Witness ==
  /\ last.op = "respondToDeduction"
  /\ last.result = "ok"
  /\ 1 \in DOMAIN claims
  /\ [i \in DOMAIN claims[1].history |-> claims[1].history[i].action]
       = <<"submitted", "deduction_applied", "user_accepted">>

\* the names of the notifications a successful call of op publishes
NoticesOf(op) ==
  CASE op = "createClaim" -> {"new_claim"}
    [] op = "applyDeduction" -> {"deduction_applied", "claim_status_changed"}
    [] op = "respondToDeduction" -> {"deduction_response", "claim_status_changed"}
    [] op \in {"accountApprove", "accountReject", "adminApprove"} -> {"claim_status_changed"}

Publishes(name, to) == \E e \in last'.events : e.event = name /\ e.to = to

C29_Step ==
  /\ \A p \in Procs :
       createClaimSave(p) =>
         LET c == Len(claims') IN
         /\ Len(claims') = Len(claims) + 1
         /\ {e.event : e \in last'.events} = NoticesOf("createClaim")
         /\ \A e \in last'.events : e.status = claims'[c].status
         /\ Publishes("new_claim", {"role_account", "role_admin"})
         /\ Publishes("new_claim", {"all"})
  /\ \A p \in Procs :
       lifecycleSave(p) =>
         LET c == proc[p].a.claimId IN
         /\ claims'[c] # claims[c]
         /\ {e.event : e \in last'.events} = NoticesOf(proc[p].op)
         /\ \A e \in last'.events : e.status = claims'[c].status
         /\ Publishes("claim_status_changed", {"all"})
         /\ proc[p].op = "applyDeduction" =>
              /\ Publishes("deduction_applied", {Room(claims'[c].userId)})
              /\ \A e \in last'.events :
                   e.finalAmount = claims'[c].calculatedEarnings - claims'[c].deductionAmount
  /\ (last' # last /\ last'.op \in MutatingOps /\ last'.events # {}) =>
       \E p \in Procs : createClaimSave(p) \/ lifecycleSave(p)

ReviewEntries(h) ==
  {i \in DOMAIN h :
     \/ h[i].action \in {"deduction_applied", "account_approved"}
     \/ h[i].action = "user_rejected" /\ h[i].by \in ReviewTeam}

LastReviewer(h) ==
  IF ReviewEntries(h) = {} THEN NULL
  ELSE h[CHOOSE i \in ReviewEntries(h) : \A j \in ReviewEntries(h) : j <= i].by

ReviewedByLastReviewer ==
  \A c \in DOMAIN claims : claims[c].reviewedBy = LastReviewer(claims[c].history)

C30_Step ==
  /\ ReviewedByLastReviewer'
  /\ \A p \in Procs :
       /\ (lifecycleSave(p) /\ proc[p].op \in {"respondToDeduction", "adminApprove"}) =>
            claims'[proc[p].a.claimId].reviewedBy = claims[proc[p].a.claimId].reviewedBy
       /\ (lockClaimSave(p) \/ unlockClaimSave(p)) =>
            claims'[proc[p].a.claimId].reviewedBy = claims[proc[p].a.claimId].reviewedBy
       /\ (lifecycleSave(p) /\ proc[p].op = "accountReject") =>
            /\ claims'[proc[p].a.claimId].deductionReason = proc[p].a.reason
            /\ claims'[proc[p].a.claimId].deductionAmount
                 = claims[proc[p].a.claimId].deductionAmount

\* C30: in every reachable state reviewedBy of a claim is the actor of the
\* most recent successful applyDeduction, accountApprove or accountReject on
\* it, and unset when there was none; respondToDeduction, adminApprove, lock
\* and unlock leave reviewedBy as it was; accountReject stores its reason in
\* deductionReason and leaves deductionAmount as it was
C30_ReviewedByLastReviewer == [][C30_Step]_vars

\* the preconditions a request with arguments a violates in this state, in
\* the step order of its operation
ViolatedBy(op, a) ==
  CASE op = "createClaim" ->
         SelectSeq(<<"InvalidInput", "DuplicateClaim", "ForbiddenPost", "ConfigurationMissing">>,
           LAMBDA k :
             \/ k = "InvalidInput" /\ (a.userId = NULL \/ a.postIds = <<>> \/ Repeats(a.postIds))
             \/ k = "DuplicateClaim" /\ \E c \in DOMAIN claims : Overlaps(a.postIds, c)
             \/ k = "ForbiddenPost" /\ \E id \in Range(a.postIds) \cap DOMAIN posts :
                                          posts[id].userId # a.userId
             \/ k = "ConfigurationMissing" /\ \A i \in DOMAIN settings : ~settings[i].isActive)
    [] op = "respondToDeduction" ->
         IF a.claimId \notin DOMAIN claims THEN <<"NotFound">>
         ELSE SelectSeq(<<"InvalidStateTransition", "Unauthorized">>,
           LAMBDA k :
             \/ k = "InvalidStateTransition" /\ claims[a.claimId].status # "deducted"
             \/ k = "Unauthorized" /\ claims[a.claimId].userId # a.userId)
    [] op = "applyDeduction" ->
         IF a.claimId \notin DOMAIN claims THEN <<"NotFound">>
         ELSE SelectSeq(<<"InvalidStateTransition", "InvalidDeduction">>,
           LAMBDA k :
             \/ k = "InvalidStateTransition" /\ claims[a.claimId].status # "pending"
             \/ k = "InvalidDeduction" /\ (a.amount <= 0
                    \/ a.amount >= claims[a.claimId].calculatedEarnings))

\* process p ends a call of op with a failure in this step
Fails(p, op) ==
  /\ last' # last
  /\ last'.op = op
  /\ last'.result \in FailureKinds
  /\ proc'[p] = Idle
  /\ proc[p] = Idle \/ proc[p].op = op

C31_Step ==
  \A p \in Procs, op \in {"createClaim", "respondToDeduction", "applyDeduction"} :
    /\ Fails(p, op) =>
         /\ ViolatedBy(op, last'.a) # <<>>
         /\ last'.result = ViolatedBy(op, last'.a)[1]
    /\ (proc[p] # Idle /\ proc[p].op = op /\ proc[p].pc = "save") =>
         ViolatedBy(op, proc[p].a) = <<>>

AcceptedByOwner(claim) ==
  \E i, j \in DOMAIN claim.history :
    /\ i < j
    /\ claim.history[i].action = "deduction_applied"
    /\ claim.history[j].action = "user_accepted"
    /\ claim.history[j].by = claim.userId

\* C32: in every state, also one reached by interleaved calls on the same
\* claim, a claim with status admin_approved and deductionAmount > 0 has,
\* after a deduction_applied entry, a user_accepted entry made by its owner
C32_NoApprovalWithoutAcceptance ==
  \A c \in DOMAIN claims :
    (claims[c].status = "admin_approved" /\ claims[c].deductionAmount > 0)
      => AcceptedByOwner(claims[c])

\* C33: with one call at a time, in every state a deducted claim has
\* deductionAmount > 0, a claim with deductionAmount > 0 is deducted,
\* user_accepted or admin_approved, and a pending, user_rejected or
\* account_approved claim has deductionAmount = 0
C33_DeductionMatchesStatus ==
  \A c \in DOMAIN claims :
    /\ claims[c].status = "deducted" => claims[c].deductionAmount > 0
    /\ claims[c].deductionAmount > 0 =>
         claims[c].status \in {"deducted", "user_accepted", "admin_approved"}
    /\ claims[c].status \in {"pending", "user_rejected", "account_approved"} =>
         claims[c].deductionAmount = 0

\* a claim whose deduction the owner rejected was approved by the reviewer
C33_Witness ==
  \E c \in DOMAIN claims :
    /\ claims[c].status = "account_approved"
    /\ claims[c].deductionAmount = 0
    /\ \E i \in DOMAIN claims[c].history : claims[c].history[i].action = "deduction_applied"

\* the status that goes with the action of a history entry
StatusOf(action) ==
  CASE action = "submitted" -> "pending"
    [] action = "deduction_applied" -> "deducted"
    [] action = "user_accepted" -> "user_accepted"
    [] action = "user_rejected" -> "user_rejected"
    [] action = "account_approved" -> "account_approved"
    [] action = "admin_approved" -> "admin_approved"
    [] OTHER -> "none"

LastEntryGivesStatus(claim) ==
  /\ Len(claim.history) >= 1
  /\ claim.history[1].action = "submitted"
  /\ claim.status = StatusOf(claim.history[Len(claim.history)].action)

\* the number of successful lifecycle transitions this step performs on claim c
Transitions(c) ==
  IF \E p \in Procs : lifecycleSave(p) /\ proc[p].a.claimId = c THEN 1 ELSE 0

C34_Step ==
  /\ \A c \in DOMAIN claims' : LastEntryGivesStatus(claims'[c])
  /\ \A c \in DOMAIN claims' \ DOMAIN claims : Len(claims'[c].history) = 1
  /\ \A c \in DOMAIN claims :
       /\ c \in DOMAIN claims'
       /\ Len(claims'[c].history) = Len(claims[c].history) + Transitions(c)

\* C34: with one call at a time, in every state the action of the last
\* history entry of a claim gives its status (submitted - pending,
\* deduction_applied - deducted, user_accepted - user_accepted, user_rejected
\* - user_rejected, account_approved - account_approved, admin_approved -
\* admin_approved), the first entry is submitted, and the history has one
\* entry for the submission and one more for each successful lifecycle
\* transition of the claim
C34_HistoryTracksStatus == [][C34_Step]_vars

\* a claim that went through deduction, rejection by the owner and approval
C34_Witness ==
  \E c \in DOMAIN claims :
    /\ [i \in DOMAIN claims[c].history |-> claims[c].history[i].action]
         = <<"submitted", "deduction_applied", "user_rejected", "account_approved">>
    /\ claims[c].status = "account_approved"

SettledEntries(claim) ==
  {i \in DOMAIN claim.history : claim.history[i].action = "settled"}

C35_Step ==
  /\ \A c \in DOMAIN claims :
       claims'[c].status = "pending" => claims[c].status = "pending"
  /\ \A c \in DOMAIN claims' \ DOMAIN claims :
       /\ claims'[c].status = "pending"
       /\ \E p \in Procs : createClaimSave(p)
  /\ \A c \in DOMAIN claims' :
       /\ claims'[c].status # "settled"
       /\ DeductionEntries(claims'[c]) <= 1
       /\ SettledEntries(claims'[c]) = {}

\* C35: no operation moves a claim into status pending or settled: pending
\* is the status createClaim gives and is never entered again, settled is
\* never reached; so, with one call at a time, the history of a claim has
\* at most one deduction_applied entry and no settled entry
C35_PendingOnlyAtCreation == [][C35_Step]_vars

\* a second deduction was refused on a claim whose first deduction the owner
\* had rejected
C35_Witness ==
  /\ last.op = "applyDeduction"
  /\ last.result = "InvalidStateTransition"
  /\ last.a.claimId \in DOMAIN claims
  /\ claims[last.a.claimId].status = "user_rejected"
  /\ DeductionEntries(claims[last.a.claimId]) = 1

\* the least number of lifecycle operations from a status to admin_approved
Distance(status) ==
  CASE status = "admin_approved" -> 0
    [] status \in {"user_accepted", "account_approved"} -> 1
    [] status \in {"pending", "deducted", "user_rejected"} -> 2
    [] OTHER -> 3

\* some lifecycle call on claim c by some actor passes its tests
CanCall(c) ==
  ENABLED (\E p \in Procs : LifecycleCall(p, c) /\ proc'[p].pc = "save")

\* some lifecycle call on claim c passes its tests and brings the claim
\* nearer to admin_approved
CanAdvance(c) ==
  ENABLED (\E p \in Procs :
             /\ LifecycleCall(p, c)
             /\ proc'[p].pc = "save"
             /\ Distance(proc'[p].local.status) < Distance(claims[c].status))

\* C36: in every state a claim that is not admin_approved has a lifecycle
\* operation that succeeds for some authorized actor and arguments, and
\* lifecycle operations lead from it to admin_approved; admin_approved is
\* the only reachable status in which every lifecycle operation fails
\* (stated for histories below the bound of the model, with a handler free)
C36_OnlyAdminApprovedIsFinal ==
  \A c \in DOMAIN claims \cap ClaimIds :
    ((\E p \in Procs : proc[p] = Idle) /\ Len(claims[c].history) < MaxHistory) =>
      /\ Distance(claims[c].status) <= 2
      /\ IF claims[c].status # "admin_approved"
         THEN CanCall(c) /\ CanAdvance(c)
         ELSE ~CanCall(c)

\* a claim the reviewer sent back, on which the final approval was refused
C36_Witness ==
  /\ last.op = "adminApprove"
  /\ last.result = "InvalidStateTransition"
  /\ last.a.claimId \in DOMAIN claims
  /\ claims[last.a.claimId].status = "user_rejected"
  /\ Len(claims[last.a.claimId].history) < MaxHistory
  /\ CanAdvance(last.a.claimId)

C37_Step ==
  (last' # last /\ \E e \in last'.events : e.event = "claim_unlocked") =>
    LET c == last'.a.claimId IN
    /\ c \in DOMAIN claims
    /\ claims[c].lockedBy = last'.a.userId
    /\ claims'[c].lockedBy = NULL

\* C37: claim_unlocked is broadcast only in a step in which an unlock
\* request of the holder of the lock has cleared lockedBy; an unlock request
\* of another actor, which leaves the claim as it is, broadcasts no
\* claim_unlocked
C37_UnlockedOnlyOnRelease == [][C37_Step]_vars

====
